---------------------------- MODULE Spec2Model ----------------------------
(***************************************************************************)
(* Model of the diffusion / heat operator of mirgecom (diffusion.py) and   *)
(* of its fluid-wall coupling layer (thermally_coupled_fluid_wall.py).     *)
(*                                                                         *)
(* Two specifications share the module:                                    *)
(*   FluxSpec  the flux kernels and the boundary conditions, applied to    *)
(*             trace data drawn from bounded sets;                         *)
(*   Spec      one evaluation of coupled_ns_heat_operator, statement by    *)
(*             statement, with the calls it makes recorded in a log.       *)
(*                                                                         *)
(* Field values are exact rationals <<numerator, denominator>>.  A face    *)
(* carries two base nodes and three quadrature nodes (the two base nodes   *)
(* and their midpoint); a volume element carries three nodes and three     *)
(* faces.                                                                  *)
(***************************************************************************)
EXTENDS Integers, Sequences, FiniteSets, TLC

VARIABLES
    call,      \* FluxSpec: the kernel / boundary call in progress
    pc,        \* Spec: position in coupled_ns_heat_operator
    inp,       \* Spec: the arguments of the evaluation
    env,       \* Spec: the local variables assigned so far
    log        \* Spec: the calls made so far, in order

vars == <<call, pc, inp, env, log>>

-----------------------------------------------------------------------------
(* Bounds of the model.                                                    *)

MaxKappa == 2     \* conductivity samples range over 1..MaxKappa
MaxU == 1         \* state samples range over 0..MaxU

-----------------------------------------------------------------------------
(* Exact arithmetic on field samples.                                      *)

RECURSIVE GCD(_, _)
GCD(a, b) == IF b = 0 THEN a ELSE GCD(b, a % b)

Rat(n, d) == LET g == GCD(IF n < 0 THEN -n ELSE n, d) IN <<n \div g, d \div g>>

R(n) == <<n, 1>>

RAdd(a, b) == Rat(a[1] * b[2] + b[1] * a[2], a[2] * b[2])

RNeg(a) == <<-a[1], a[2]>>

RSub(a, b) == RAdd(a, RNeg(b))

RMul(a, b) == Rat(a[1] * b[1], a[2] * b[2])

RHalf(a) == RMul(<<1, 2>>, a)

(* DOF arrays: a sequence of samples, combined sample by sample.           *)
FAdd(a, b) == [i \in DOMAIN a |-> RAdd(a[i], b[i])]

FSub(a, b) == [i \in DOMAIN a |-> RSub(a[i], b[i])]

FMul(a, b) == [i \in DOMAIN a |-> RMul(a[i], b[i])]

FNeg(a) == [i \in DOMAIN a |-> RNeg(a[i])]

FScale(r, a) == [i \in DOMAIN a |-> RMul(r, a[i])]

FZero(a) == [i \in DOMAIN a |-> R(0)]

(* np.dot of two object arrays of DOF arrays.                              *)
RECURSIVE DotUpTo(_, _, _)
DotUpTo(v, w, k) ==
    IF k = 1 THEN FMul(v[1], w[1])
    ELSE FAdd(DotUpTo(v, w, k - 1), FMul(v[k], w[k]))

np_dot(v, w) == DotUpTo(v, w, Len(v))

-----------------------------------------------------------------------------
(* The discretization collection: descriptors, projections, normals.       *)

DISCR_TAG_BASE == "DISCR_TAG_BASE"

DISCR_TAG_QUAD == "DISCR_TAG_QUAD"

QuadratureTags == {DISCR_TAG_BASE, DISCR_TAG_QUAD}

VOLUME_ALL == "VOLUME_ALL"

FACE_RESTR_ALL == "FACE_RESTR_ALL"

Faces == {"F1", "F2", "F3"}

FaceNodes(f) ==
    CASE f = "F1" -> <<1, 2>>
      [] f = "F2" -> <<2, 3>>
      [] f = "F3" -> <<3, 1>>

DOFDesc(dtag, qtag) == [domain_tag |-> dtag, discretization_tag |-> qtag]

with_discr_tag(dd, qtag) == [dd EXCEPT !.discretization_tag = qtag]

with_boundary_tag(dd, btag) == [dd EXCEPT !.domain_tag = btag]

untrace(dd) == [dd EXCEPT !.domain_tag = VOLUME_ALL]

(* Interpolation of a base face array to the quadrature nodes.             *)
Interp(a) == <<a[1], RHalf(RAdd(a[1], a[2])), a[2]>>

(* Restriction of a volume array to the nodes of one face.                 *)
Restrict(f, a) == <<a[FaceNodes(f)[1]], a[FaceNodes(f)[2]]>>

(* A face array placed in the all-faces array, zero on the other faces.    *)
Embed(f, a) == [g \in Faces |-> IF g = f THEN a ELSE FZero(a)]

(* op.project(dcoll, src, tgt, a)                                          *)
project(dcoll, src, tgt, a) ==
    IF src = tgt THEN a
    ELSE IF src.domain_tag = VOLUME_ALL /\ tgt.domain_tag \in Faces
    THEN IF tgt.discretization_tag = src.discretization_tag
         THEN Restrict(tgt.domain_tag, a)
         ELSE Interp(Restrict(tgt.domain_tag, a))
    ELSE IF src.domain_tag \in Faces /\ tgt.domain_tag = src.domain_tag
    THEN Interp(a)
    ELSE Embed(src.domain_tag, a)

(* project applied to an object array, component by component.             *)
project_vec(dcoll, src, tgt, v) ==
    [i \in DOMAIN v |-> project(dcoll, src, tgt, v[i])]

NodesOf(dd) ==
    IF dd.discretization_tag = DISCR_TAG_BASE THEN 1..2 ELSE 1..3

(* dcoll.normal(dd): the unit normal of the face, one DOF array per axis.  *)
normal(dcoll, dd) ==
    [i \in 1..dcoll.dim |->
        [k \in NodesOf(dd) |-> R(dcoll.nhat[dd.domain_tag][i])]]

Dims == {1, 2}

UnitNormals(dim) ==
    {[i \in 1..dim |-> IF i = k THEN s ELSE 0] : k \in 1..dim, s \in {-1, 1}}

(* The discretization collections the kernels are applied to: a dimension  *)
(* and one axis-aligned outward normal for the face under consideration.   *)
DColls(f) ==
    UNION {{[dim |-> d, nhat |-> [g \in {f} |-> n]] : n \in UnitNormals(d)} :
             d \in Dims}

-----------------------------------------------------------------------------
(* grudge.trace_pair.TracePair                                             *)

TracePair(dd, interior, exterior) == [dd |-> dd, int |-> interior, ext |-> exterior]

avg(tpair) == FScale(<<1, 2>>, FAdd(tpair.int, tpair.ext))


-----------------------------------------------------------------------------
(* diffusion.py: the flux kernels.                                         *)

grad_flux_avg_int_only(dcoll, u_tpair, quadrature_tag) ==
    LET dd_trace == u_tpair.dd
        dd_trace_quad == with_discr_tag(dd_trace, quadrature_tag)
        dd_allfaces_quad == with_boundary_tag(dd_trace_quad, FACE_RESTR_ALL)
        normal_quad == normal(dcoll, dd_trace_quad)
        to_quad(a) == project(dcoll, dd_trace, dd_trace_quad, a)
        flux(u, nrm) == [i \in DOMAIN nrm |-> FMul(FNeg(u), nrm[i])]
    IN  [dd |-> dd_allfaces_quad,
         data |-> project_vec(dcoll, dd_trace_quad, dd_allfaces_quad,
                      flux(to_quad(u_tpair.int), normal_quad))]

(* A grad_flux that brings the flux back to the base all-faces nodes.      *)
grad_flux_back_on_base(dcoll, u_tpair, quadrature_tag) ==
    LET dd_trace == u_tpair.dd
        dd_trace_quad == with_discr_tag(dd_trace, quadrature_tag)
        dd_allfaces_quad == with_boundary_tag(dd_trace_quad, FACE_RESTR_ALL)
        normal_quad == normal(dcoll, dd_trace_quad)
        to_quad(a) == project(dcoll, dd_trace, dd_trace_quad, a)
        flux(u, nrm) == [i \in DOMAIN nrm |-> FMul(FNeg(u), nrm[i])]
        on_quad == project_vec(dcoll, dd_trace_quad, dd_allfaces_quad,
                       flux(to_quad(avg(u_tpair)), normal_quad))
    IN  [dd |-> with_discr_tag(dd_allfaces_quad, DISCR_TAG_BASE),
         data |-> [i \in DOMAIN on_quad |->
                      [g \in Faces |-> <<on_quad[i][g][1],
                                         on_quad[i][g][Len(on_quad[i][g])]>>]]]

grad_flux(dcoll, u_tpair, quadrature_tag) ==
    LET dd_trace == u_tpair.dd
        dd_trace_quad == with_discr_tag(dd_trace, quadrature_tag)
        dd_allfaces_quad == with_boundary_tag(dd_trace_quad, FACE_RESTR_ALL)
        normal_quad == normal(dcoll, dd_trace_quad)
        to_quad(a) == project(dcoll, dd_trace, dd_trace_quad, a)
        flux(u, nrm) == [i \in DOMAIN nrm |-> FMul(FNeg(u), nrm[i])]
    IN  [dd |-> dd_allfaces_quad,
         data |-> project_vec(dcoll, dd_trace_quad, dd_allfaces_quad,
                      flux(to_quad(avg(u_tpair)), normal_quad))]

diffusion_flux_avg_first(dcoll, kappa_tpair, grad_u_tpair, quadrature_tag) ==
    LET dd_trace == grad_u_tpair.dd
        dd_trace_quad == with_discr_tag(dd_trace, quadrature_tag)
        dd_allfaces_quad == with_boundary_tag(dd_trace_quad, FACE_RESTR_ALL)
        normal_quad == normal(dcoll, dd_trace_quad)
        to_quad(a) == project(dcoll, dd_trace, dd_trace_quad, a)
        to_quad_vec(v) == project_vec(dcoll, dd_trace, dd_trace_quad, v)
        flux(kappa, grad_u, nrm) == FMul(FNeg(kappa), np_dot(grad_u, nrm))
        grad_u_avg == [i \in DOMAIN grad_u_tpair.int |->
                          avg(TracePair(dd_trace, grad_u_tpair.int[i],
                                        grad_u_tpair.ext[i]))]
    IN  [dd |-> dd_allfaces_quad,
         data |-> project(dcoll, dd_trace_quad, dd_allfaces_quad,
                      flux(to_quad(avg(kappa_tpair)), to_quad_vec(grad_u_avg),
                           normal_quad))]

diffusion_flux(dcoll, kappa_tpair, grad_u_tpair, quadrature_tag) ==
    LET dd_trace == grad_u_tpair.dd
        dd_trace_quad == with_discr_tag(dd_trace, quadrature_tag)
        dd_allfaces_quad == with_boundary_tag(dd_trace_quad, FACE_RESTR_ALL)
        normal_quad == normal(dcoll, dd_trace_quad)
        to_quad(a) == project(dcoll, dd_trace, dd_trace_quad, a)
        to_quad_vec(v) == project_vec(dcoll, dd_trace, dd_trace_quad, v)
        flux(kappa, grad_u, nrm) == FMul(FNeg(kappa), np_dot(grad_u, nrm))
        flux_tpair == TracePair(dd_trace_quad,
            flux(to_quad(kappa_tpair.int), to_quad_vec(grad_u_tpair.int),
                 normal_quad),
            flux(to_quad(kappa_tpair.ext), to_quad_vec(grad_u_tpair.ext),
                 normal_quad))
    IN  [dd |-> dd_allfaces_quad,
         data |-> project(dcoll, dd_trace_quad, dd_allfaces_quad,
                      avg(flux_tpair))]

-----------------------------------------------------------------------------
(* diffusion.py: the boundary conditions.  A boundary object is a record   *)
(* holding its class and the prescribed value (a DOF array on the face).   *)

DirichletDiffusionBoundary(value) ==
    [cls |-> "DirichletDiffusionBoundary", value |-> value]

NeumannDiffusionBoundary(value) ==
    [cls |-> "NeumannDiffusionBoundary", value |-> value]

Dirichlet_u_tpair_no_mirror(self, dcoll, dd_bdry, u) ==
    LET u_int == project(dcoll, untrace(dd_bdry), dd_bdry, u)
    IN  TracePair(dd_bdry, u_int, u_int)

Dirichlet_u_tpair_without_factor_two(self, dcoll, dd_bdry, u) ==
    LET u_int == project(dcoll, untrace(dd_bdry), dd_bdry, u)
    IN  TracePair(dd_bdry, u_int, FSub(self.value, u_int))

Dirichlet_u_tpair(self, dcoll, dd_bdry, u) ==
    LET u_int == project(dcoll, untrace(dd_bdry), dd_bdry, u)
    IN  TracePair(dd_bdry, u_int, FSub(FScale(R(2), self.value), u_int))

Dirichlet_get_grad_flux(self, dcoll, dd_bdry, u, quadrature_tag) ==
    grad_flux(dcoll, Dirichlet_u_tpair(self, dcoll, dd_bdry, u), quadrature_tag)

Dirichlet_get_diffusion_flux_mirrored(self, dcoll, dd_bdry, kappa, grad_u, quadrature_tag) ==
    LET dd_vol == untrace(dd_bdry)
        kappa_int == project(dcoll, dd_vol, dd_bdry, kappa)
        kappa_tpair == TracePair(dd_bdry, kappa_int, kappa_int)
        grad_u_int == project_vec(dcoll, dd_vol, dd_bdry, grad_u)
        grad_u_ext == [i \in DOMAIN grad_u_int |->
                          FSub(FScale(R(2), self.value), grad_u_int[i])]
        grad_u_tpair == TracePair(dd_bdry, grad_u_int, grad_u_ext)
    IN  diffusion_flux(dcoll, kappa_tpair, grad_u_tpair, quadrature_tag)

Dirichlet_get_diffusion_flux(self, dcoll, dd_bdry, kappa, grad_u, quadrature_tag) ==
    LET dd_vol == untrace(dd_bdry)
        kappa_int == project(dcoll, dd_vol, dd_bdry, kappa)
        kappa_tpair == TracePair(dd_bdry, kappa_int, kappa_int)
        grad_u_int == project_vec(dcoll, dd_vol, dd_bdry, grad_u)
        grad_u_tpair == TracePair(dd_bdry, grad_u_int, grad_u_int)
    IN  diffusion_flux(dcoll, kappa_tpair, grad_u_tpair, quadrature_tag)

Neumann_get_grad_flux(self, dcoll, dd_bdry, u, quadrature_tag) ==
    LET u_int == project(dcoll, untrace(dd_bdry), dd_bdry, u)
        u_tpair == TracePair(dd_bdry, u_int, u_int)
    IN  grad_flux(dcoll, u_tpair, quadrature_tag)

Neumann_get_diffusion_flux_from_grad_u(self, dcoll, dd_bdry, kappa, grad_u, quadrature_tag) ==
    LET dd_vol == untrace(dd_bdry)
        kappa_int == project(dcoll, dd_vol, dd_bdry, kappa)
        kappa_tpair == TracePair(dd_bdry, kappa_int, kappa_int)
        grad_u_int == project_vec(dcoll, dd_vol, dd_bdry, grad_u)
        grad_u_tpair == TracePair(dd_bdry, grad_u_int, grad_u_int)
    IN  diffusion_flux(dcoll, kappa_tpair, grad_u_tpair, quadrature_tag)

Neumann_get_diffusion_flux(self, dcoll, dd_bdry, kappa, grad_u, quadrature_tag) ==
    LET dd_bdry_quad == with_discr_tag(dd_bdry, quadrature_tag)
        dd_allfaces_quad == with_boundary_tag(dd_bdry_quad, FACE_RESTR_ALL)
        kappa_int_quad == project(dcoll, untrace(dd_bdry), dd_bdry_quad, kappa)
        value_quad == project(dcoll, dd_bdry, dd_bdry_quad, self.value)
        flux_quad == FMul(FNeg(kappa_int_quad), value_quad)
    IN  [dd |-> dd_allfaces_quad,
         data |-> project(dcoll, dd_bdry_quad, dd_allfaces_quad, flux_quad)]

-----------------------------------------------------------------------------
(* FluxSpec: the kernels and boundary methods applied to bounded inputs.   *)

KappaVals == 1..MaxKappa

UVals == 0..MaxU

GradVals == {-1, 2}

FaceArrays(S) == {<<R(a), R(b)>> : a \in S, b \in S}

VolArrays(S) == {<<R(a), R(b), R(c)>> : a \in S, b \in S, c \in S}

ConstArrays(A) == {a \in A : \A i \in DOMAIN a : a[i] = a[1]}

(* Gradient samples: the first component varies from node to node, the     *)
(* others are constant over the element.                                   *)
Vectors(dim, A) ==
    {v \in [1..dim -> A] : \A i \in 2..dim : v[i] \in ConstArrays(A)}

BoundaryFaces == {"F1", "F3"}

TraceFace == "F1"

NoCall == [op |-> "none"]

(* The coupled operator is not being evaluated.                             *)
CoupledOff ==
    /\ pc = "off"
    /\ inp = [dim |-> 0]
    /\ env = [dim |-> 0]
    /\ log = <<>>

CallGradFlux ==
    /\ call = NoCall
    /\ \E dcoll \in DColls(TraceFace), q \in QuadratureTags,
          ui \in FaceArrays(UVals), ue \in FaceArrays(UVals) :
         LET tp == TracePair(DOFDesc(TraceFace, DISCR_TAG_BASE), ui, ue)
         IN  call' = [op |-> "grad_flux", dcoll |-> dcoll,
                      quadrature_tag |-> q, u_tpair |-> tp,
                      result |-> grad_flux(dcoll, tp, q)]
    /\ UNCHANGED <<pc, inp, env, log>>

CallDiffusionFlux ==
    /\ call = NoCall
    /\ \E dcoll \in DColls(TraceFace), q \in QuadratureTags,
          ki \in FaceArrays(KappaVals), ke \in FaceArrays(KappaVals) :
         \E gi \in Vectors(dcoll.dim, FaceArrays(GradVals)),
            ge \in Vectors(dcoll.dim, FaceArrays(GradVals)) :
           LET dd == DOFDesc(TraceFace, DISCR_TAG_BASE)
               ktp == TracePair(dd, ki, ke)
               gtp == TracePair(dd, gi, ge)
           IN  call' = [op |-> "diffusion_flux", dcoll |-> dcoll,
                        quadrature_tag |-> q, kappa_tpair |-> ktp,
                        grad_u_tpair |-> gtp,
                        result |-> diffusion_flux(dcoll, ktp, gtp, q)]
    /\ UNCHANGED <<pc, inp, env, log>>

CallDirichletGradFlux ==
    /\ call = NoCall
    /\ \E f \in BoundaryFaces, q \in QuadratureTags,
          u \in VolArrays(UVals), value \in FaceArrays(UVals) :
         \E dcoll \in DColls(f) :
           LET self == DirichletDiffusionBoundary(value)
               dd_bdry == DOFDesc(f, DISCR_TAG_BASE)
           IN  call' = [op |-> "Dirichlet.get_grad_flux", self |-> self,
                        dcoll |-> dcoll, dd_bdry |-> dd_bdry,
                        quadrature_tag |-> q, u |-> u,
                        u_tpair |-> Dirichlet_u_tpair(self, dcoll, dd_bdry, u),
                        result |-> Dirichlet_get_grad_flux(
                                       self, dcoll, dd_bdry, u, q)]
    /\ UNCHANGED <<pc, inp, env, log>>

CallNeumannGradFlux ==
    /\ call = NoCall
    /\ \E f \in BoundaryFaces, q \in QuadratureTags,
          u \in VolArrays(UVals), value \in FaceArrays(UVals) :
         \E dcoll \in DColls(f) :
           LET self == NeumannDiffusionBoundary(value)
               dd_bdry == DOFDesc(f, DISCR_TAG_BASE)
           IN  call' = [op |-> "Neumann.get_grad_flux", self |-> self,
                        dcoll |-> dcoll, dd_bdry |-> dd_bdry,
                        quadrature_tag |-> q, u |-> u,
                        result |-> Neumann_get_grad_flux(
                                       self, dcoll, dd_bdry, u, q)]
    /\ UNCHANGED <<pc, inp, env, log>>

CallDirichletDiffusionFlux ==
    /\ call = NoCall
    /\ \E f \in BoundaryFaces, q \in QuadratureTags,
          kappa \in VolArrays(KappaVals),
          value \in ConstArrays(FaceArrays(UVals)) :
         \E dcoll \in DColls(f) :
           \E grad_u \in Vectors(dcoll.dim, VolArrays(GradVals)) :
             LET self == DirichletDiffusionBoundary(value)
                 dd_bdry == DOFDesc(f, DISCR_TAG_BASE)
             IN  call' = [op |-> "Dirichlet.get_diffusion_flux",
                          self |-> self, dcoll |-> dcoll,
                          dd_bdry |-> dd_bdry, quadrature_tag |-> q,
                          kappa |-> kappa, grad_u |-> grad_u,
                          result |-> Dirichlet_get_diffusion_flux(
                                         self, dcoll, dd_bdry, kappa, grad_u, q)]
    /\ UNCHANGED <<pc, inp, env, log>>

CallNeumannDiffusionFlux ==
    /\ call = NoCall
    /\ \E f \in BoundaryFaces, q \in QuadratureTags,
          kappa \in VolArrays(KappaVals), value \in FaceArrays(UVals) :
         \E dcoll \in DColls(f) :
           \E grad_u \in Vectors(dcoll.dim, VolArrays(GradVals)) :
             LET self == NeumannDiffusionBoundary(value)
                 dd_bdry == DOFDesc(f, DISCR_TAG_BASE)
             IN  call' = [op |-> "Neumann.get_diffusion_flux",
                          self |-> self, dcoll |-> dcoll,
                          dd_bdry |-> dd_bdry, quadrature_tag |-> q,
                          kappa |-> kappa, grad_u |-> grad_u,
                          result |-> Neumann_get_diffusion_flux(
                                         self, dcoll, dd_bdry, kappa, grad_u, q)]
    /\ UNCHANGED <<pc, inp, env, log>>

(* The call returns; its values are discarded.                             *)
Return ==
    /\ call # NoCall
    /\ call' = NoCall
    /\ UNCHANGED <<pc, inp, env, log>>

FluxInit ==
    /\ call = NoCall
    /\ CoupledOff

FluxNext ==
    \/ CallGradFlux
    \/ CallDiffusionFlux
    \/ CallDirichletGradFlux
    \/ CallNeumannGradFlux
    \/ CallDirichletDiffusionFlux
    \/ CallNeumannDiffusionFlux
    \/ Return

FluxSpec == FluxInit /\ [][FluxNext]_vars

-----------------------------------------------------------------------------
(* Reference values the claims are stated with: the value of a face array  *)
(* at the flux nodes, the normal component of a gradient, the one-sided    *)
(* flux, and "a is the all-faces array holding x on face f only".          *)

AtFluxNodes(q, a) == IF q = DISCR_TAG_BASE THEN a ELSE Interp(a)

RECURSIVE NormalComponent(_, _, _, _)
NormalComponent(g, n, node, k) ==
    IF k = 0 THEN R(0)
    ELSE RAdd(NormalComponent(g, n, node, k - 1), RMul(g[k][node], R(n[k])))

OneSidedFlux(q, kappa, grad_u, n) ==
    LET k == AtFluxNodes(q, kappa)
        g == [i \in DOMAIN grad_u |-> AtFluxNodes(q, grad_u[i])]
    IN  [node \in DOMAIN k |->
            RNeg(RMul(k[node], NormalComponent(g, n, node, Len(n))))]

OnFaceOnly(a, f, x) ==
    /\ a[f] = x
    /\ \A g \in Faces \ {f} : \A node \in DOMAIN a[g] : a[g][node] = R(0)

IsZeroArray(a) == \A node \in DOMAIN a : a[node] = R(0)

-----------------------------------------------------------------------------
(* C1: diffusion_flux returns the average of the two one-sided fluxes:     *)
(* at every flux node the result is                                        *)
(* ( -kappa_int*(grad_u_int . n) + -kappa_ext*(grad_u_ext . n) ) / 2,      *)
(* kappa and grad_u combined per side first and averaged afterwards.       *)
C1_DiffusionFluxAveragesOneSidedFluxes ==
    call.op = "diffusion_flux" =>
        LET q == call.quadrature_tag
            f == call.grad_u_tpair.dd.domain_tag
            n == call.dcoll.nhat[f]
            fi == OneSidedFlux(q, call.kappa_tpair.int, call.grad_u_tpair.int, n)
            fe == OneSidedFlux(q, call.kappa_tpair.ext, call.grad_u_tpair.ext, n)
        IN  OnFaceOnly(call.result.data, f,
                [node \in DOMAIN fi |-> RHalf(RAdd(fi[node], fe[node]))])

(* C1, the case: a call whose result differs from the flux of the averaged *)
(* kappa and the averaged gradient.                                        *)
C1_Witness ==
    /\ call.op = "diffusion_flux"
    /\ call.kappa_tpair.int # call.kappa_tpair.ext
    /\ call.result # diffusion_flux_avg_first(call.dcoll, call.kappa_tpair,
                          call.grad_u_tpair, call.quadrature_tag)

(* C2: DirichletDiffusionBoundary(f).get_grad_flux builds the trace pair   *)
(* (interior = u_int, exterior = 2*f - u_int), whose face average is f,    *)
(* and its result is the grad_flux of that pair, which is -f * n.          *)
C2_DirichletGradFluxMirrors ==
    call.op = "Dirichlet.get_grad_flux" =>
        LET q == call.quadrature_tag
            f == call.dd_bdry.domain_tag
            n == call.dcoll.nhat[f]
            value == call.self.value
            u_int == Restrict(f, call.u)
        IN  /\ call.u_tpair.int = u_int
            /\ \A k \in DOMAIN u_int :
                   call.u_tpair.ext[k] = RSub(RMul(R(2), value[k]), u_int[k])
            /\ avg(call.u_tpair) = value
            /\ call.result = grad_flux(call.dcoll, call.u_tpair, q)
            /\ \A i \in DOMAIN n :
                   OnFaceOnly(call.result.data[i], f,
                       [k \in DOMAIN AtFluxNodes(q, value) |->
                           RNeg(RMul(AtFluxNodes(q, value)[k], R(n[i])))])

(* C2, the case: the interior trace differs from the prescribed value.     *)
C2_Witness ==
    /\ call.op = "Dirichlet.get_grad_flux"
    /\ call.u_tpair.int # call.self.value
    /\ call.u_tpair.ext # call.u_tpair.int
    /\ ~IsZeroArray(call.self.value)

(* C3: NeumannDiffusionBoundary(g).get_diffusion_flux returns              *)
(* -kappa_int * g on the all-faces discretization whatever grad_u is; for  *)
(* g = 0 the flux is zero at every point.                                  *)
C3_NeumannDiffusionFluxIsKappaG ==
    call.op = "Neumann.get_diffusion_flux" =>
        LET q == call.quadrature_tag
            f == call.dd_bdry.domain_tag
            g == AtFluxNodes(q, call.self.value)
            kappa_int == AtFluxNodes(q, Restrict(f, call.kappa))
        IN  /\ OnFaceOnly(call.result.data, f,
                   [k \in DOMAIN g |-> RNeg(RMul(kappa_int[k], g[k]))])
            /\ call.result.dd = DOFDesc(FACE_RESTR_ALL, q)
            /\ \A grad_u \in Vectors(call.dcoll.dim, VolArrays(GradVals)) :
                   Neumann_get_diffusion_flux(call.self, call.dcoll,
                       call.dd_bdry, call.kappa, grad_u, q) = call.result
            /\ IsZeroArray(call.self.value) =>
                   \A h \in Faces : IsZeroArray(call.result.data[h])

(* C3, the case: g = 0 on a face where the gradient passed in has a        *)
(* non-zero normal component.                                              *)
C3_Witness ==
    /\ call.op = "Neumann.get_diffusion_flux"
    /\ IsZeroArray(call.self.value)
    /\ LET f == call.dd_bdry.domain_tag
           gi == [i \in DOMAIN call.grad_u |-> Restrict(f, call.grad_u[i])]
       IN  ~IsZeroArray(OneSidedFlux(call.quadrature_tag,
                            Restrict(f, call.kappa), gi, call.dcoll.nhat[f]))
    /\ \A h \in Faces : IsZeroArray(call.result.data[h])

(* C4: DirichletDiffusionBoundary.get_diffusion_flux uses the interior     *)
(* traces of kappa and grad_u on both sides: its result is                 *)
(* -kappa_int*(grad_u_int . n) and does not depend on the prescribed f.    *)
C4_DirichletDiffusionFluxIgnoresValue ==
    call.op = "Dirichlet.get_diffusion_flux" =>
        LET q == call.quadrature_tag
            f == call.dd_bdry.domain_tag
            n == call.dcoll.nhat[f]
            kappa_int == Restrict(f, call.kappa)
            grad_u_int == [i \in DOMAIN call.grad_u |-> Restrict(f, call.grad_u[i])]
        IN  /\ OnFaceOnly(call.result.data, f,
                   OneSidedFlux(q, kappa_int, grad_u_int, n))
            /\ \A value \in FaceArrays(UVals) :
                   Dirichlet_get_diffusion_flux(
                       DirichletDiffusionBoundary(value), call.dcoll,
                       call.dd_bdry, call.kappa, call.grad_u, q) = call.result

(* C4, the case: a non-zero prescribed value and a non-zero flux.          *)
C4_Witness ==
    /\ call.op = "Dirichlet.get_diffusion_flux"
    /\ ~IsZeroArray(call.self.value)
    /\ ~IsZeroArray(call.result.data[call.dd_bdry.domain_tag])

(* C5: grad_flux returns -avg(u) * n with avg(u) = (u_int + u_ext)/2, a    *)
(* central flux: the same for the pair with its two sides swapped.         *)
C5_GradFluxIsCentral ==
    call.op = "grad_flux" =>
        LET q == call.quadrature_tag
            tp == call.u_tpair
            f == tp.dd.domain_tag
            n == call.dcoll.nhat[f]
            u_avg == AtFluxNodes(q,
                [k \in DOMAIN tp.int |-> RHalf(RAdd(tp.int[k], tp.ext[k]))])
        IN  /\ \A i \in DOMAIN n :
                   OnFaceOnly(call.result.data[i], f,
                       [k \in DOMAIN u_avg |-> RNeg(RMul(u_avg[k], R(n[i])))])
            /\ call.result = grad_flux(call.dcoll,
                                 TracePair(tp.dd, tp.ext, tp.int), q)

(* C5, the case: the two sides differ and the flux is not zero.            *)
C5_Witness ==
    /\ call.op = "grad_flux"
    /\ call.u_tpair.int # call.u_tpair.ext
    /\ \E i \in DOMAIN call.result.data :
           ~IsZeroArray(call.result.data[i][call.u_tpair.dd.domain_tag])

-----------------------------------------------------------------------------
(* thermally_coupled_fluid_wall.py: data of the coupling layer.            *)
(*                                                                         *)
(* A Python dict is the sequence of its items [k, v] in insertion order.   *)
(* A volume field is known by its traces on the interface parts: a scalar  *)
(* field by one number per part, a gradient by one symbolic component per  *)
(* axis that records the operator call it came from.                       *)

MaxParts == 2     \* interface parts (trace pairs per direction): 0..MaxParts
MaxT == 2         \* temperature samples range over 1..MaxT

DictKeys(d) == {d[i].k : i \in DOMAIN d}

DictGet(d, k) == d[CHOOSE i \in DOMAIN d : d[i].k = k].v

(* d[k] = v: an existing key keeps its position.                           *)
DictSet(d, k, v) ==
    IF k \in DictKeys(d)
    THEN [i \in DOMAIN d |-> IF d[i].k = k THEN [k |-> k, v |-> v] ELSE d[i]]
    ELSE Append(d, [k |-> k, v |-> v])

RECURSIVE DictUpdateUpTo(_, _, _)
DictUpdateUpTo(d, e, n) ==
    IF n = 0 THEN d
    ELSE DictSet(DictUpdateUpTo(d, e, n - 1), e[n].k, e[n].v)

(* d.update(e)                                                             *)
DictUpdate(d, e) == DictUpdateUpTo(d, e, Len(e))

(* Boundary keys.  A caller may key a boundary by a bare boundary tag, by  *)
(* a domain tag or by a DOF descriptor; as_dofdesc(k).domain_tag is the    *)
(* domain tag in each case.                                                *)
BoundaryDomainTag(name) == [form |-> "domain_tag", name |-> name]

as_dofdesc_domain_tag(bdtag) == BoundaryDomainTag(bdtag.name)

RECURSIVE NormalizeUpTo(_, _)
NormalizeUpTo(boundaries, n) ==
    IF n = 0 THEN <<>>
    ELSE DictSet(NormalizeUpTo(boundaries, n - 1),
                 as_dofdesc_domain_tag(boundaries[n].k), boundaries[n].v)

(* {as_dofdesc(bdtag).domain_tag: bdry for bdtag, bdry in b.items()}       *)
normalize_boundaries(boundaries) == NormalizeUpTo(boundaries, Len(boundaries))

(* Fields.                                                                 *)
ScalarField(at) == [kind |-> "scalar", at |-> at]

VectorField(comps) == [kind |-> "vector", comps |-> comps]

(* The gradient returned by an operator call `by`, dim components.         *)
GradientOf(by, dim) ==
    VectorField([i \in 1..dim |-> [kind |-> "grad", by |-> by, axis |-> i]])

(* 0*a for a DOF array a.                                                  *)
ZeroTimes(a) == [kind |-> "num", val |-> 0 * a]

(* The trace of a volume field on interface part p.                        *)
TraceOnPart(field, p) ==
    IF field.kind = "scalar" THEN field.at[p]
    ELSE [i \in DOMAIN field.comps |->
             [kind |-> "trace", of |-> field.comps[i], part |-> p]]

InterfaceTag(other_vol, p) == BoundaryDomainTag(<<"interface", other_vol, p>>)

(* grudge inter_volume_trace_pairs: for pairwise_vol_data keyed by         *)
(* (vol_a, vol_b) with data (data_a, data_b) it returns, under the key     *)
(* (src, tgt), one trace pair per interface part, living on the tgt side   *)
(* of the interface, interior = traces of tgt's data, exterior = traces of *)
(* src's data.                                                             *)
inter_volume_trace_pairs(discr, pairwise_vol_data, comm_tag) ==
    LET key == CHOOSE k \in DOMAIN pairwise_vol_data : TRUE
        a == key[1]
        b == key[2]
        data == [v \in {a, b} |->
                    IF v = a THEN pairwise_vol_data[key][1]
                    ELSE pairwise_vol_data[key][2]]
        traces(v, p) == [j \in DOMAIN data[v] |-> TraceOnPart(data[v][j], p)]
    IN  [k \in {<<a, b>>, <<b, a>>} |->
            [p \in 1..discr.nparts |->
                TracePair(DOFDesc(InterfaceTag(k[1], p), DISCR_TAG_BASE),
                          traces(k[2], p), traces(k[1], p))]]

InterVolNoGradTag == "_InterVolNoGradTag"

InterVolTag == "_InterVolTag"

InterfaceFluidBoundary(ext_t, ext_grad_t, ext_kappa) ==
    [cls |-> "InterfaceFluidBoundary", ext_t |-> ext_t,
     ext_grad_t |-> ext_grad_t, ext_kappa |-> ext_kappa]

InterfaceWallBoundary(u_ext, grad_u_ext, kappa_ext) ==
    [cls |-> "InterfaceWallBoundary", u_ext |-> u_ext,
     grad_u_ext |-> grad_u_ext, kappa_ext |-> kappa_ext]

(* inter_vol_tpairs[wall_volume_dd, fluid_volume_dd]                       *)
fluid_side_tpairs_same_key(inter_vol_tpairs, fluid_volume_dd, wall_volume_dd) ==
    inter_vol_tpairs[<<fluid_volume_dd, wall_volume_dd>>]

fluid_side_tpairs(inter_vol_tpairs, fluid_volume_dd, wall_volume_dd) ==
    inter_vol_tpairs[<<wall_volume_dd, fluid_volume_dd>>]

(* inter_vol_tpairs[fluid_volume_dd, wall_volume_dd]                       *)
wall_side_tpairs(inter_vol_tpairs, fluid_volume_dd, wall_volume_dd) ==
    inter_vol_tpairs[<<fluid_volume_dd, wall_volume_dd>>]

(* The loops that build one boundary per trace pair.                       *)
(* cls(a, b, c) for the interface boundary class named cls.                *)
NewInterfaceBoundary_kappa_first(cls, a, b, c) ==
    IF cls = "InterfaceFluidBoundary" THEN InterfaceFluidBoundary(c, b, a)
    ELSE InterfaceWallBoundary(c, b, a)

NewInterfaceBoundary(cls, a, b, c) ==
    IF cls = "InterfaceFluidBoundary" THEN InterfaceFluidBoundary(a, b, c)
    ELSE InterfaceWallBoundary(a, b, c)

RECURSIVE BoundariesNoGradUpTo(_, _, _, _)
BoundariesNoGradUpTo(tpairs, n, dim, cls) ==
    IF n = 0 THEN <<>>
    ELSE LET tpair == tpairs[n]
             bdtag == tpair.dd.domain_tag
             ext_temperature == tpair.ext[1]
             ext_kappa == tpair.ext[2]
         IN  DictSet(BoundariesNoGradUpTo(tpairs, n - 1, dim, cls), bdtag,
                 NewInterfaceBoundary(cls, ext_temperature,
                      [i \in 1..dim |-> ZeroTimes(ext_temperature)],
                      ext_kappa))

RECURSIVE BoundariesUpTo(_, _, _)
BoundariesUpTo(tpairs, n, cls) ==
    IF n = 0 THEN <<>>
    ELSE LET tpair == tpairs[n]
             bdtag == tpair.dd.domain_tag
             ext_temperature == tpair.ext[1]
             ext_grad_temperature == tpair.ext[2]
             ext_kappa == tpair.ext[3]
         IN  DictSet(BoundariesUpTo(tpairs, n - 1, cls), bdtag,
                 NewInterfaceBoundary(cls, ext_temperature,
                     ext_grad_temperature, ext_kappa))

(* _get_interface_boundaries_no_grad: the exchange made and the two dicts  *)
(* returned.                                                               *)
get_interface_boundaries_no_grad(discr, wall_model, fluid_volume_dd, wall_volume_dd, fluid_state, wall_temperature) ==
    LET pairwise_vol_data ==
            [k \in {<<fluid_volume_dd, wall_volume_dd>>} |->
                << <<fluid_state.temperature, fluid_state.thermal_conductivity>>,
                   <<wall_temperature, wall_model.thermal_conductivity>> >>]
        inter_vol_tpairs ==
            inter_volume_trace_pairs(discr, pairwise_vol_data, InterVolNoGradTag)
        fluid_tpairs_no_grad ==
            fluid_side_tpairs(inter_vol_tpairs, fluid_volume_dd, wall_volume_dd)
        wall_tpairs_no_grad ==
            wall_side_tpairs(inter_vol_tpairs, fluid_volume_dd, wall_volume_dd)
    IN  [exchange |-> [op |-> "inter_volume_trace_pairs",
                       comm_tag |-> InterVolNoGradTag,
                       data |-> pairwise_vol_data[<<fluid_volume_dd, wall_volume_dd>>]],
         fluid |-> BoundariesNoGradUpTo(fluid_tpairs_no_grad,
                       Len(fluid_tpairs_no_grad), discr.dim,
                       "InterfaceFluidBoundary"),
         wall |-> BoundariesNoGradUpTo(wall_tpairs_no_grad,
                       Len(wall_tpairs_no_grad), discr.dim,
                       "InterfaceWallBoundary")]

-----------------------------------------------------------------------------
(* Python calls: a call either returns a value or raises.                  *)

Raised(type, msg) == [raised |-> TRUE, exc |-> [type |-> type, msg |-> msg]]

Returned(v) == [raised |-> FALSE, value |-> v]

(* A Python value together with its type, where the code tests the type.   *)
PyVal(type, val) == [type |-> type, val |-> val]

PyNone == PyVal("NoneType", <<>>)

(* The positional parameters (after self) and the keyword-only parameters  *)
(* of the two methods of each DiffusionBoundary subclass.                  *)
MethodParams(cls, method) ==
    IF cls = "InterfaceWallBoundary"
    THEN IF method = "get_grad_flux"
         THEN [pos |-> <<"discr", "dd_vol", "dd_bdry", "u">>,
               kwonly |-> {"quadrature_tag"}]
         ELSE [pos |-> <<"discr", "dd_vol", "dd_bdry", "u", "kappa", "grad_u">>,
               kwonly |-> {"penalty_amount", "quadrature_tag"}]
    ELSE IF method = "get_grad_flux"
         THEN [pos |-> <<"dcoll", "dd_bdry", "u">>,
               kwonly |-> {"quadrature_tag"}]
         ELSE [pos |-> <<"dcoll", "dd_bdry", "kappa", "grad_u">>,
               kwonly |-> {"quadrature_tag"}]

(* Whether a call with nargs positional arguments and the keyword names    *)
(* kwnames binds to params; otherwise Python raises TypeError.             *)
Binds(params, nargs, kwnames) ==
    /\ nargs = Len(params.pos)
    /\ kwnames \subseteq params.kwonly

(* isinstance(bdry, DiffusionBoundary)                                     *)
DiffusionBoundarySubclasses ==
    {"DirichletDiffusionBoundary", "NeumannDiffusionBoundary",
     "InterfaceWallBoundary"}

Min(S) == CHOOSE x \in S : \A y \in S : x <= y

(* The work an operator call has done when it returns or raises: the       *)
(* volume terms, exchanges, flux kernels and boundary methods evaluated,   *)
(* in the order Python evaluates them.                                     *)
WithWork(r, work) == ("work" :> work) @@ r

RECURSIVE ConcatWork(_, _)
ConcatWork(rs, n) ==
    IF n = 0 THEN <<>> ELSE ConcatWork(rs, n - 1) \o rs[n].work

(* The calls with results rs made one after the other: the first that      *)
(* raises ends the sequence.                                               *)
Sequenced(rs) ==
    LET raising == {i \in DOMAIN rs : rs[i].raised}
    IN  IF raising # {}
        THEN WithWork([raised |-> TRUE, exc |-> rs[Min(raising)].exc],
                      ConcatWork(rs, Min(raising)))
        ELSE WithWork(Returned([i \in DOMAIN rs |-> rs[i].value]),
                      ConcatWork(rs, Len(rs)))

DiffusionStateTag == "_DiffusionStateTag"

DiffusionKappaTag == "_DiffusionKappaTag"

DiffusionGradTag_shared_with_kappa == "_DiffusionKappaTag"

DiffusionGradTag == "_DiffusionGradTag"

(* grudge interior_trace_pairs: the exchange of data across interior faces *)
interior_trace_pairs(data, volume_dd, tag) ==
    [op |-> "interior_trace_pairs", data |-> data, volume_dd |-> volume_dd,
     tag |-> tag]

(* The parameters of the flux kernels grad_flux and diffusion_flux.        *)
KernelParams(kernel) ==
    IF kernel = "grad_flux"
    THEN [pos |-> <<"dcoll", "u_tpair">>, kwonly |-> {"quadrature_tag"}]
    ELSE [pos |-> <<"dcoll", "kappa_tpair", "grad_u_tpair">>,
          kwonly |-> {"quadrature_tag"}]

(* The kernel call a boundary method makes: the kernel, the number of its  *)
(* positional arguments and its keywords.                                  *)
KernelCall(cls, method) ==
    IF method = "get_grad_flux"
    THEN [kernel |-> "grad_flux", nargs |-> 2, kwnames |-> {"quadrature_tag"}]
    ELSE IF cls = "DirichletDiffusionBoundary"
    THEN [kernel |-> "diffusion_flux", nargs |-> 3,
          kwnames |-> {"quadrature_tag"}]
    ELSE IF cls = "InterfaceWallBoundary"
    THEN [kernel |-> "diffusion_flux", nargs |-> 5,
          kwnames |-> {"penalty_amount", "quadrature_tag"}]
    ELSE [kernel |-> "none", nargs |-> 0, kwnames |-> {}]

(* bdry.get_grad_flux(...) / bdry.get_diffusion_flux(...) as the operators *)
(* call it, with nargs positional arguments and quadrature_tag; operands   *)
(* names the arrays the call is given.                                     *)
BoundaryCall(bdtag, bdry, method, nargs, operands) ==
    LET k == KernelCall(bdry.cls, method)
        entered == <<[op |-> method, tag |-> bdtag, cls |-> bdry.cls] @@ operands>>
    IN  IF ~Binds(MethodParams(bdry.cls, method), nargs, {"quadrature_tag"})
        THEN WithWork(Raised("TypeError",
                 [text |-> "missing required positional arguments",
                  method |-> method, tag |-> bdtag]), <<>>)
        ELSE IF k.kernel = "none"
        THEN WithWork(Returned([flux |-> method, tag |-> bdtag]), entered)
        ELSE IF ~Binds(KernelParams(k.kernel), k.nargs, k.kwnames)
        THEN WithWork(Raised("TypeError",
                 [text |-> "kernel call does not match the kernel's parameters",
                  method |-> k.kernel, tag |-> bdtag]), entered)
        ELSE WithWork(Returned([flux |-> method, tag |-> bdtag]),
                 Append(entered,
                        [op |-> k.kernel, on |-> bdtag] @@ operands))

UnrecognizedBoundary(bdtag) ==
    Raised("TypeError", [text |-> "Unrecognized boundary type for tag",
                         tag |-> bdtag])

(* A grad_operator that tests each boundary's type only when its turn in   *)
(* the boundary sum comes.                                                 *)
grad_operator_checking_in_the_sum(dcoll, boundaries, u, quadrature_tag, volume_dd) ==
    LET b == normalize_boundaries(boundaries)
        interior == <<[op |-> "weak_local_grad", u |-> u],
                      ("payload" :> "u")
                          @@ interior_trace_pairs(u, volume_dd, DiffusionStateTag),
                      [op |-> "grad_flux", on |-> "interior", u |-> u]>>
        bdry == Sequenced([i \in DOMAIN b |->
                    IF b[i].v.cls \notin DiffusionBoundarySubclasses
                    THEN WithWork(UnrecognizedBoundary(b[i].k), <<>>)
                    ELSE BoundaryCall(b[i].k, b[i].v, "get_grad_flux", 3,
                                      [u |-> u])])
    IN  IF bdry.raised
        THEN WithWork([raised |-> TRUE, exc |-> bdry.exc], interior \o bdry.work)
        ELSE WithWork(
                 Returned(GradientOf([op |-> "grad_operator", boundaries |-> b,
                                      u |-> u, quadrature_tag |-> quadrature_tag,
                                      volume_dd |-> volume_dd], dcoll.dim)),
                 interior \o bdry.work
                     \o <<[op |-> "face_mass"], [op |-> "inverse_mass"]>>)

(* grad_operator, lines 271-299: u is a DOF array, boundaries a dict.      *)
grad_operator_dofarray(dcoll, boundaries, u, quadrature_tag, volume_dd) ==
    LET b == normalize_boundaries(boundaries)
        unrecognized == {i \in DOMAIN b : b[i].v.cls \notin DiffusionBoundarySubclasses}
        interior == <<[op |-> "weak_local_grad", u |-> u],
                      ("payload" :> "u")
                          @@ interior_trace_pairs(u, volume_dd, DiffusionStateTag),
                      [op |-> "grad_flux", on |-> "interior", u |-> u]>>
        bdry == Sequenced([i \in DOMAIN b |->
                    BoundaryCall(b[i].k, b[i].v, "get_grad_flux", 3, [u |-> u])])
    IN  IF unrecognized # {}
        THEN WithWork(UnrecognizedBoundary(b[Min(unrecognized)].k), <<>>)
        ELSE IF bdry.raised
        THEN WithWork([raised |-> TRUE, exc |-> bdry.exc], interior \o bdry.work)
        ELSE WithWork(
                 Returned(GradientOf([op |-> "grad_operator", boundaries |-> b,
                                      u |-> u, quadrature_tag |-> quadrature_tag,
                                      volume_dd |-> volume_dd], dcoll.dim)),
                 interior \o bdry.work
                     \o <<[op |-> "face_mass"], [op |-> "inverse_mass"]>>)

(* A grad_operator that gives every component of an object array the      *)
(* first dict of the list.                                                 *)
grad_operator_first_dict_for_all(dcoll, boundaries, u, quadrature_tag, volume_dd) ==
    IF u.type = "ndarray"
    THEN IF boundaries.type # "list"
         THEN WithWork(Raised("TypeError",
                  [text |-> "boundaries must be a list if u is an object array"]),
                  <<>>)
         ELSE IF Len(boundaries.val) # Len(u.val.comps)
         THEN WithWork(Raised("TypeError",
                  [text |-> "boundaries must be the same length as u"]), <<>>)
         ELSE Sequenced([i \in DOMAIN u.val.comps |->
                  grad_operator_dofarray(dcoll, boundaries.val[1].val,
                      u.val.comps[i], quadrature_tag, volume_dd)])
    ELSE IF boundaries.type # "dict"
    THEN WithWork(Raised("AttributeError",
             [text |-> "'list' object has no attribute 'items'"]), <<>>)
    ELSE grad_operator_dofarray(dcoll, boundaries.val, u.val, quadrature_tag,
                                volume_dd)

(* grad_operator: boundaries and u are values with their types; an object  *)
(* array u (a VectorField of DOF arrays) is handled component by component *)
(* with the dict at the same place of the list (lines 260-269).            *)
grad_operator(dcoll, boundaries, u, quadrature_tag, volume_dd) ==
    IF u.type = "ndarray"
    THEN IF boundaries.type # "list"
         THEN WithWork(Raised("TypeError",
                  [text |-> "boundaries must be a list if u is an object array"]),
                  <<>>)
         ELSE IF Len(boundaries.val) # Len(u.val.comps)
         THEN WithWork(Raised("TypeError",
                  [text |-> "boundaries must be the same length as u"]), <<>>)
         ELSE Sequenced([i \in DOMAIN u.val.comps |->
                  grad_operator_dofarray(dcoll, boundaries.val[i].val,
                      u.val.comps[i], quadrature_tag, volume_dd)])
    ELSE IF boundaries.type # "dict"
    THEN WithWork(Raised("AttributeError",
             [text |-> "'list' object has no attribute 'items'"]), <<>>)
    ELSE grad_operator_dofarray(dcoll, boundaries.val, u.val, quadrature_tag,
                                volume_dd)


\* _normalize_arguments: args is the sequence of the positional arguments,
\* kwargs maps keyword names to values.
IndexOf(seq, x) == CHOOSE i \in DOMAIN seq : seq[i] = x

(* _normalize_arguments, lines 303-352, for the keyword names             *)
(* all_arg_names it accepts.                                               *)
normalize_arguments_with(all_arg_names, args, kwargs) ==
    LET pos_arg_names ==
            IF Len(args) >= 2 /\ args[2].type \notin {"dict", "list"}
            THEN <<"kappa", "quad_tag", "boundaries", "u">>
            ELSE <<"kappa", "boundaries", "u">>
        given_pos == {pos_arg_names[i] : i \in 1..Len(args)}
        arg_dict == [name \in given_pos \cup DOMAIN kwargs |->
                        IF name \in DOMAIN kwargs THEN kwargs[name]
                        ELSE args[IndexOf(pos_arg_names, name)]]
        kappa == IF "alpha" \in DOMAIN arg_dict THEN arg_dict["alpha"]
                 ELSE arg_dict["kappa"]
        quadrature_tag ==
            IF "quad_tag" \in DOMAIN arg_dict THEN arg_dict["quad_tag"]
            ELSE IF "quadrature_tag" \in DOMAIN arg_dict
            THEN arg_dict["quadrature_tag"]
            ELSE PyVal("tag", DISCR_TAG_BASE)
    IN  IF Len(args) > Len(pos_arg_names)
        THEN Raised("TypeError", [text |-> "diffusion_operator() takes up to n positional arguments",
                                  n |-> Len(pos_arg_names)])
        ELSE IF DOMAIN kwargs \ all_arg_names # {}
        THEN Raised("TypeError", [text |-> "diffusion_operator() got an unexpected keyword argument",
                                  names |-> DOMAIN kwargs \ all_arg_names])
        ELSE IF {"alpha", "kappa"} \cap DOMAIN arg_dict = {}
        THEN Raised("KeyError", [text |-> "kappa"])
        ELSE IF "boundaries" \notin DOMAIN arg_dict
        THEN Raised("KeyError", [text |-> "boundaries"])
        ELSE IF "u" \notin DOMAIN arg_dict
        THEN Raised("KeyError", [text |-> "u"])
        ELSE Returned([kappa |-> kappa,
                       boundaries |-> arg_dict["boundaries"],
                       u |-> arg_dict["u"],
                       quadrature_tag |-> quadrature_tag,
                       warnings |-> {n \in {"alpha", "quad_tag"} :
                                        n \in DOMAIN arg_dict}])

(* An adapter that lets the keyword penalty_amount through.                *)
normalize_arguments_with_penalty_amount(args, kwargs) ==
    normalize_arguments_with(
        {"alpha", "kappa", "quad_tag", "boundaries", "u", "quadrature_tag",
         "penalty_amount"}, args, kwargs)

(* An adapter that does not know the name alpha.                           *)
normalize_arguments_without_alpha(args, kwargs) ==
    normalize_arguments_with(
        {"kappa", "quad_tag", "boundaries", "u", "quadrature_tag"},
        args, kwargs)

normalize_arguments(args, kwargs) ==
    normalize_arguments_with(
        {"alpha", "kappa", "quad_tag", "boundaries", "u", "quadrature_tag"},
        args, kwargs)

OwnKeywords == {"return_grad_u", "volume_dd", "grad_u"}

(* diffusion_operator, lines 423-426: the gradient used, grad_u if it was  *)
(* supplied and otherwise the result `computed` of the grad_operator call. *)
gradient_used(grad_u, boundaries, u, computed) ==
    IF grad_u.type = "NoneType"
    THEN WithWork(computed,
             <<[op |-> "grad_operator", boundaries |-> boundaries, u |-> u]>>
             \o computed.work)
    ELSE WithWork(Returned(grad_u.val), <<>>)

(* diffusion_operator, lines 428-457: the volume term and the fluxes with  *)
(* the gradient `grad` (the result of lines 423-426), b the re-keyed dict. *)
diffusion_terms(kappa, b, u, quadrature_tag, return_grad_u, volume_dd, grad) ==
    LET operands == [kappa |-> kappa, grad_u |-> grad.value]
        interior == <<[op |-> "weak_local_div"] @@ operands,
                      ("payload" :> "kappa")
                          @@ interior_trace_pairs(kappa, volume_dd,
                                                  DiffusionKappaTag),
                      ("payload" :> "grad_u")
                          @@ interior_trace_pairs(grad.value, volume_dd,
                                                  DiffusionGradTag),
                      [op |-> "diffusion_flux", on |-> "interior"] @@ operands>>
        bdry == Sequenced([i \in DOMAIN b |->
                    BoundaryCall(b[i].k, b[i].v, "get_diffusion_flux", 4,
                                 operands)])
        diff_u == [op |-> "diffusion_operator", kappa |-> kappa,
                   boundaries |-> b, u |-> u, grad_u |-> grad.value,
                   quadrature_tag |-> quadrature_tag, volume_dd |-> volume_dd]
    IN  IF grad.raised
        THEN WithWork([raised |-> TRUE, exc |-> grad.exc], grad.work)
        ELSE IF bdry.raised
        THEN WithWork([raised |-> TRUE, exc |-> bdry.exc],
                      grad.work \o interior \o bdry.work)
        ELSE WithWork(
                 Returned(IF return_grad_u
                          THEN [diff_u |-> diff_u, grad_u |-> grad.value]
                          ELSE diff_u),
                 grad.work \o interior \o bdry.work
                     \o <<[op |-> "face_mass"], [op |-> "inverse_mass"]>>)

(* diffusion_operator, lines 410-457: u is a DOF array, boundaries a dict, *)
(* grad_u the keyword argument (None when not supplied).                   *)
diffusion_operator_dofarray(dcoll, kappa, boundaries, u, quadrature_tag, return_grad_u, volume_dd, grad_u) ==
    LET b == normalize_boundaries(boundaries)
        unrecognized == {i \in DOMAIN b : b[i].v.cls \notin DiffusionBoundarySubclasses}
    IN  IF unrecognized # {}
        THEN WithWork(UnrecognizedBoundary(b[Min(unrecognized)].k), <<>>)
        ELSE diffusion_terms(kappa, b, u, quadrature_tag, return_grad_u,
                 volume_dd,
                 gradient_used(grad_u, b, u,
                     grad_operator(dcoll, PyVal("dict", b), PyVal("DOFArray", u),
                                   quadrature_tag, volume_dd)))

\* diffusion_operator: args holds the positional arguments after dcoll, kw
\* every keyword argument of the call; return_grad_u, volume_dd and grad_u
\* are the operator's own keywords, the others go to _normalize_arguments.
\* An object array u is handled component by component (lines 399-408).
diffusion_operator(dcoll, args, kw) ==
    LET kwargs == [name \in DOMAIN kw \ OwnKeywords |-> kw[name]]
        norm == normalize_arguments(args, kwargs)
        a == norm.value
        volume_dd == IF "volume_dd" \in DOMAIN kw THEN kw["volume_dd"].val
                     ELSE VOLUME_ALL
        return_grad_u == IF "return_grad_u" \in DOMAIN kw
                         THEN kw["return_grad_u"].val ELSE FALSE
        grad_u == IF "grad_u" \in DOMAIN kw THEN kw["grad_u"] ELSE PyNone
        component(i) ==
            LET n == normalize_arguments(
                         <<a.kappa, a.boundaries.val[i],
                           PyVal("DOFArray", a.u.val.comps[i])>>,
                         [quadrature_tag |-> a.quadrature_tag])
            IN  IF n.raised THEN WithWork(n, <<>>)
                ELSE diffusion_operator_dofarray(dcoll, n.value.kappa.val,
                         n.value.boundaries.val, n.value.u.val,
                         n.value.quadrature_tag.val, return_grad_u, volume_dd,
                         PyNone)
    IN  IF norm.raised THEN WithWork(norm, <<>>)
        ELSE IF a.u.type = "ndarray"
        THEN IF a.boundaries.type # "list"
             THEN WithWork(Raised("TypeError",
                      [text |-> "boundaries must be a list if u is an object array"]),
                      <<>>)
             ELSE IF Len(a.boundaries.val) # Len(a.u.val.comps)
             THEN WithWork(Raised("TypeError",
                      [text |-> "boundaries must be the same length as u"]), <<>>)
             ELSE Sequenced([i \in DOMAIN a.u.val.comps |-> component(i)])
        ELSE IF a.boundaries.type # "dict"
        THEN WithWork(Raised("AttributeError",
                 [text |-> "'list' object has no attribute 'items'"]), <<>>)
        ELSE diffusion_operator_dofarray(dcoll, a.kappa.val, a.boundaries.val,
                 a.u.val, a.quadrature_tag.val, return_grad_u, volume_dd, grad_u)


(* _heat_operator: the call it makes to diffusion_operator.                *)
heat_operator_call(wall_model, boundaries, temperature, penalty_amount, quadrature_tag, volume_dd) ==
    [args |-> <<PyVal("DOFArray", wall_model.thermal_conductivity),
                PyVal("dict", boundaries),
                PyVal("DOFArray", temperature)>>,
     kw |-> [penalty_amount |-> penalty_amount,
             quadrature_tag |-> PyVal("tag", quadrature_tag),
             volume_dd |-> PyVal("DOFDesc", volume_dd)]]

(* _heat_operator, lines 394-395: the factor applied to the result r of     *)
(* the diffusion_operator call.                                            *)
heat_operator_result(wall_model, r) ==
    IF r.raised THEN r
    ELSE Returned([op |-> "_heat_operator",
                   density |-> wall_model.density,
                   heat_capacity |-> wall_model.heat_capacity,
                   diffusion |-> r.value])

heat_operator(discr, wall_model, boundaries, temperature, penalty_amount, quadrature_tag, volume_dd) ==
    LET c == heat_operator_call(wall_model, boundaries, temperature,
                                penalty_amount, quadrature_tag, volume_dd)
    IN  heat_operator_result(wall_model, diffusion_operator(discr, c.args, c.kw))

-----------------------------------------------------------------------------
(* coupled_ns_heat_operator: one evaluation, statement by statement.        *)
(* inp holds the arguments of the call, env the local variables assigned   *)
(* so far, log the calls made to the exchange and to the operators, pc the *)
(* next statement.                                                         *)

UserKey(form, name) == [form |-> form, name |-> <<"user", name, 0>>]

FluidBoundaryDicts ==
    {<<>>,
     <<[k |-> UserKey("btag", "fluid_far"),
        v |-> [cls |-> "PrescribedFluidBoundary"]]>>}

WallBoundaryDicts ==
    {<<>>,
     <<[k |-> UserKey("btag", "wall_far"),
        v |-> DirichletDiffusionBoundary(1)]>>,
     <<[k |-> UserKey("dofdesc", "wall_far"),
        v |-> NeumannDiffusionBoundary(0)]>>}

(* The traces of a temperature field on the n interface parts.             *)
Samples(t, n) == [p \in 1..n |-> ((t + p) % MaxT) + 1]

Inputs ==
    {[discr |-> [dim |-> d, nparts |-> n],
      fluid_volume_dd |-> "fluid",
      wall_volume_dd |-> "wall",
      fluid_boundaries |-> fb,
      wall_boundaries |-> wb,
      fluid_state |-> [temperature |-> ScalarField(Samples(ft, n)),
                       thermal_conductivity |-> ScalarField([p \in 1..n |-> fk])],
      wall_temperature |-> ScalarField(Samples(wt, n)),
      wall_model |-> [thermal_conductivity |-> ScalarField([p \in 1..n |-> wk]),
                      density |-> 1, heat_capacity |-> 1],
      wall_penalty_amount |-> PyNone,
      quadrature_tag |-> q] :
        d \in Dims, n \in 0..MaxParts, q \in QuadratureTags,
        fb \in FluidBoundaryDicts, wb \in WallBoundaryDicts,
        ft \in 1..MaxT, wt \in 1..MaxT, fk \in KappaVals, wk \in KappaVals}

Init ==
    /\ call = NoCall
    /\ pc = "start"
    /\ inp \in Inputs
    /\ env = [frame |-> "coupled_ns_heat_operator"]
    /\ log = <<>>

Raise(exc) ==
    /\ pc' = "raised"
    /\ env' = ("exc" :> exc) @@ env

(* Normalize writing the re-keyed mappings back into the caller's.         *)
Normalize_in_place ==
    /\ pc = "start"
    /\ inp' = [inp EXCEPT
                  !.fluid_boundaries = normalize_boundaries(@),
                  !.wall_boundaries = normalize_boundaries(@)]
    /\ env' = ("fluid_boundaries" :> normalize_boundaries(inp.fluid_boundaries))
              @@ ("wall_boundaries" :> normalize_boundaries(inp.wall_boundaries))
              @@ env
    /\ pc' = "phase1"
    /\ UNCHANGED <<call, log>>

(* lines 418-423 *)
Normalize ==
    /\ pc = "start"
    /\ env' = ("fluid_boundaries" :> normalize_boundaries(inp.fluid_boundaries))
              @@ ("wall_boundaries" :> normalize_boundaries(inp.wall_boundaries))
              @@ env
    /\ pc' = "phase1"
    /\ UNCHANGED <<call, inp, log>>

(* lines 425-431 *)
GetInterfaceBoundariesNoGrad ==
    /\ pc = "phase1"
    /\ LET r == get_interface_boundaries_no_grad(inp.discr, inp.wall_model,
                    inp.fluid_volume_dd, inp.wall_volume_dd, inp.fluid_state,
                    inp.wall_temperature)
       IN  /\ log' = Append(log, r.exchange)
           /\ env' = ("fluid_interface_boundaries_no_grad" :> r.fluid)
                     @@ ("wall_interface_boundaries_no_grad" :> r.wall)
                     @@ env
    /\ pc' = "cache"
    /\ UNCHANGED <<call, inp>>

(* make_operator_fluid_states (mirgecom.gas_model)                         *)
make_operator_fluid_states(discr, fluid_state, boundaries, quadrature_tag, volume_dd) ==
    [op |-> "make_operator_fluid_states", boundaries |-> boundaries,
     quadrature_tag |-> quadrature_tag, volume_dd |-> volume_dd]

MakeOperatorFluidStates_user_boundaries_only ==
    /\ pc = "cache"
    /\ LET full == DictUpdate(<<>>, env.fluid_boundaries)
           ev == make_operator_fluid_states(inp.discr, inp.fluid_state, full,
                     inp.quadrature_tag, inp.fluid_volume_dd)
       IN  /\ log' = Append(log, ev)
           /\ env' = ("fluid_full_boundaries_no_grad" :> full)
                     @@ ("fluid_operator_states_quad" :>
                             [kind |-> "operator_states", by |-> ev])
                     @@ env
    /\ pc' = "gib_fluid_grad"
    /\ UNCHANGED <<call, inp>>

(* lines 433-439 *)
MakeOperatorFluidStates ==
    /\ pc = "cache"
    /\ LET full == DictUpdate(DictUpdate(<<>>, env.fluid_boundaries),
                              env.fluid_interface_boundaries_no_grad)
           ev == make_operator_fluid_states(inp.discr, inp.fluid_state, full,
                     inp.quadrature_tag, inp.fluid_volume_dd)
       IN  /\ log' = Append(log, ev)
           /\ env' = ("fluid_full_boundaries_no_grad" :> full)
                     @@ ("fluid_operator_states_quad" :>
                             [kind |-> "operator_states", by |-> ev])
                     @@ env
    /\ pc' = "gib_fluid_grad"
    /\ UNCHANGED <<call, inp>>

(* coupled_grad_t_operator up to the two operator calls: the exchange it   *)
(* makes, if any, and the two full boundary dicts (lines 279-306).         *)
coupled_grad_t_boundaries(discr, wall_model, fluid_volume_dd, wall_volume_dd, fluid_boundaries, wall_boundaries, fluid_state, wall_temperature, fluid_no_grad, wall_no_grad) ==
    LET fb == normalize_boundaries(fluid_boundaries)
        wb == normalize_boundaries(wall_boundaries)
        is_none == fluid_no_grad.type = "NoneType" \/ wall_no_grad.type = "NoneType"
        fresh == get_interface_boundaries_no_grad(discr, wall_model,
                     fluid_volume_dd, wall_volume_dd, fluid_state,
                     wall_temperature)
        fluid_interface == IF is_none THEN fresh.fluid ELSE fluid_no_grad.val
        wall_interface == IF is_none THEN fresh.wall ELSE wall_no_grad.val
    IN  [exchanges |-> IF is_none THEN <<fresh.exchange>> ELSE <<>>,
         fluid |-> DictUpdate(DictUpdate(<<>>, fb), fluid_interface),
         wall |-> DictUpdate(DictUpdate(<<>>, wb), wall_interface)]

(* fluid_grad_t_operator (mirgecom.navierstokes.grad_t_operator)           *)
fluid_grad_t_operator(discr, boundaries, quadrature_tag, volume_dd, operator_states_quad, caller) ==
    [op |-> "fluid_grad_t_operator", boundaries |-> boundaries,
     quadrature_tag |-> quadrature_tag, volume_dd |-> volume_dd,
     operator_states_quad |-> operator_states_quad, caller |-> caller]

(* coupled_grad_t_operator, lines 279-313: the fluid gradient.  The caller  *)
(* passes its variables named fluid_no_grad and wall_no_grad as            *)
(* _fluid_interface_boundaries_no_grad, _wall_interface_boundaries_no_grad; *)
(* the events of the call record which variables were given.               *)
CoupledGradTFluid(here, next, caller, fluid_no_grad, wall_no_grad, quadrature_tag) ==
    /\ pc = here
    /\ LET b == coupled_grad_t_boundaries(inp.discr, inp.wall_model,
                    inp.fluid_volume_dd, inp.wall_volume_dd,
                    env.fluid_boundaries, env.wall_boundaries,
                    inp.fluid_state, inp.wall_temperature,
                    PyVal("dict", env[fluid_no_grad]),
                    PyVal("dict", env[wall_no_grad]))
           given == [fluid |-> fluid_no_grad, wall |-> wall_no_grad]
           ev == ("given" :> given)
                 @@ fluid_grad_t_operator(inp.discr, b.fluid, quadrature_tag,
                        inp.fluid_volume_dd, env.fluid_operator_states_quad,
                        caller)
       IN  /\ log' = Append(log \o b.exchanges, ev)
           /\ env' = ("coupled_grad_t_operator" :>
                         [wall_full_boundaries_no_grad |-> b.wall,
                          given |-> given,
                          fluid_result |-> GradientOf(ev, inp.discr.dim)])
                     @@ env
    /\ pc' = next
    /\ UNCHANGED <<call, inp>>

(* coupled_grad_t_operator, lines 314-316, and the assignment of the pair  *)
(* it returns.                                                             *)
CoupledGradTWall(here, next, caller, fluid_name, wall_name, quadrature_tag) ==
    /\ pc = here
    /\ LET frame == env.coupled_grad_t_operator
           r == grad_operator(inp.discr,
                    PyVal("dict", frame.wall_full_boundaries_no_grad),
                    PyVal("DOFArray", inp.wall_temperature), quadrature_tag,
                    inp.wall_volume_dd)
           ev == [op |-> "grad_operator",
                  boundaries |-> frame.wall_full_boundaries_no_grad,
                  quadrature_tag |-> quadrature_tag,
                  volume_dd |-> inp.wall_volume_dd,
                  caller |-> caller, given |-> frame.given,
                  raised |-> r.raised, work |-> r.work]
       IN  /\ log' = Append(log, ev)
           /\ IF r.raised THEN Raise(r.exc)
              ELSE /\ env' = (fluid_name :> frame.fluid_result)
                             @@ (wall_name :> r.value) @@ env
                   /\ pc' = next
    /\ UNCHANGED <<call, inp>>

(* get_interface_boundaries, lines 342-353: the gradients of both sides,   *)
(* computed with the boundaries of phase 1.                                *)
GIBFluidGrad ==
    CoupledGradTFluid("gib_fluid_grad", "gib_wall_grad",
                      "get_interface_boundaries",
                      "fluid_interface_boundaries_no_grad",
                      "wall_interface_boundaries_no_grad", DISCR_TAG_BASE)

GIBWallGrad ==
    CoupledGradTWall("gib_wall_grad", "phase2", "get_interface_boundaries",
                     "fluid_grad_temperature", "wall_grad_temperature",
                     DISCR_TAG_BASE)

(* get_interface_boundaries, lines 355-388: the exchange made and the two  *)
(* dicts returned.                                                         *)
get_interface_boundaries_exchange(discr, wall_model, fluid_volume_dd, wall_volume_dd, fluid_state, wall_temperature, fluid_grad_temperature, wall_grad_temperature) ==
    LET pairwise_vol_data ==
            [k \in {<<fluid_volume_dd, wall_volume_dd>>} |->
                << <<fluid_state.temperature, fluid_grad_temperature,
                     fluid_state.thermal_conductivity>>,
                   <<wall_temperature, wall_grad_temperature,
                     wall_model.thermal_conductivity>> >>]
        inter_vol_tpairs ==
            inter_volume_trace_pairs(discr, pairwise_vol_data, InterVolTag)
        fluid_tpairs ==
            fluid_side_tpairs(inter_vol_tpairs, fluid_volume_dd, wall_volume_dd)
        wall_tpairs ==
            wall_side_tpairs(inter_vol_tpairs, fluid_volume_dd, wall_volume_dd)
    IN  [exchange |-> [op |-> "inter_volume_trace_pairs",
                       comm_tag |-> InterVolTag,
                       data |-> pairwise_vol_data[<<fluid_volume_dd, wall_volume_dd>>]],
         fluid |-> BoundariesUpTo(fluid_tpairs, Len(fluid_tpairs),
                                  "InterfaceFluidBoundary"),
         wall |-> BoundariesUpTo(wall_tpairs, Len(wall_tpairs),
                                 "InterfaceWallBoundary")]

GetInterfaceBoundaries_without_exchange ==
    /\ pc = "phase2"
    /\ LET r == get_interface_boundaries_exchange(inp.discr, inp.wall_model,
                    inp.fluid_volume_dd, inp.wall_volume_dd, inp.fluid_state,
                    inp.wall_temperature, env.fluid_grad_temperature,
                    env.wall_grad_temperature)
       IN  env' = ("fluid_interface_boundaries" :> r.fluid)
                  @@ ("wall_interface_boundaries" :> r.wall)
                  @@ env
    /\ pc' = "full_boundaries"
    /\ UNCHANGED <<call, inp, log>>

(* lines 441-453, after the gradients *)
GetInterfaceBoundaries ==
    /\ pc = "phase2"
    /\ LET r == get_interface_boundaries_exchange(inp.discr, inp.wall_model,
                    inp.fluid_volume_dd, inp.wall_volume_dd, inp.fluid_state,
                    inp.wall_temperature, env.fluid_grad_temperature,
                    env.wall_grad_temperature)
       IN  /\ log' = Append(log, r.exchange)
           /\ env' = ("fluid_interface_boundaries" :> r.fluid)
                     @@ ("wall_interface_boundaries" :> r.wall)
                     @@ env
    /\ pc' = "full_boundaries"
    /\ UNCHANGED <<call, inp>>

(* lines 455-461 *)
FullBoundaries ==
    /\ pc = "full_boundaries"
    /\ env' = ("fluid_full_boundaries" :>
                  DictUpdate(DictUpdate(<<>>, env.fluid_boundaries),
                             env.fluid_interface_boundaries))
              @@ ("wall_full_boundaries" :>
                  DictUpdate(DictUpdate(<<>>, env.wall_boundaries),
                             env.wall_interface_boundaries))
              @@ env
    /\ pc' = "fluid_grad"
    /\ UNCHANGED <<call, inp, log>>

(* lines 467-480 *)
FluidGrad ==
    CoupledGradTFluid("fluid_grad", "wall_grad", "coupled_ns_heat_operator",
                      "fluid_interface_boundaries",
                      "wall_interface_boundaries", inp.quadrature_tag)

WallGrad ==
    CoupledGradTWall("wall_grad", "fluid_rhs", "coupled_ns_heat_operator",
                     "fluid_grad_t", "wall_grad_t", inp.quadrature_tag)

(* ns_operator (mirgecom.navierstokes)                                     *)
ns_operator(discr, fluid_state, boundaries, quadrature_tag, volume_dd, operator_states_quad) ==
    [op |-> "ns_operator", boundaries |-> boundaries,
     quadrature_tag |-> quadrature_tag, volume_dd |-> volume_dd,
     operator_states_quad |-> operator_states_quad]

(* x[0]*x[1] for a gradient x: the second index is out of range when the   *)
(* gradient has one component.                                             *)
IndexError == [type |-> "IndexError", msg |-> [text |-> "index 1 is out of bounds"]]

HasTwoComponents(grad) == Len(grad.comps) >= 2

(* lines 487-489, 504-506: the product 0*grad_t[0]*grad_t[1] that is added *)
(* to a right-hand side; its operands are the first two components of the  *)
(* gradient of the same subdomain.                                         *)
forced_dependency(grad_t) == <<grad_t.comps[1], grad_t.comps[2]>>

(* lines 487-490 *)
FluidRhs ==
    /\ pc = "fluid_rhs"
    /\ IF ~HasTwoComponents(env.fluid_grad_t)
       THEN /\ Raise(IndexError)
            /\ UNCHANGED log
       ELSE LET ev == ns_operator(inp.discr, inp.fluid_state,
                          env.fluid_full_boundaries, inp.quadrature_tag,
                          inp.fluid_volume_dd, env.fluid_operator_states_quad)
            IN  /\ log' = Append(log, ev)
                /\ env' = ("fluid_rhs" :> [kind |-> "rhs",
                              forced |-> forced_dependency(env.fluid_grad_t),
                              by |-> ev]) @@ env
                /\ pc' = "wall_rhs"
    /\ UNCHANGED <<call, inp>>

(* lines 504-513 *)
WallRhs ==
    /\ pc = "wall_rhs"
    /\ IF ~HasTwoComponents(env.wall_grad_t)
       THEN /\ Raise(IndexError)
            /\ UNCHANGED log
       ELSE LET r == heat_operator(inp.discr, inp.wall_model,
                         env.wall_full_boundaries, inp.wall_temperature,
                         inp.wall_penalty_amount, inp.quadrature_tag,
                         inp.wall_volume_dd)
                ev == [op |-> "_heat_operator",
                       boundaries |-> env.wall_full_boundaries,
                       quadrature_tag |-> inp.quadrature_tag,
                       volume_dd |-> inp.wall_volume_dd,
                       keywords |-> DOMAIN heat_operator_call(inp.wall_model,
                                       env.wall_full_boundaries,
                                       inp.wall_temperature,
                                       inp.wall_penalty_amount,
                                       inp.quadrature_tag,
                                       inp.wall_volume_dd).kw,
                       raised |-> r.raised]
            IN  /\ log' = Append(log, ev)
                /\ IF r.raised THEN Raise(r.exc)
                   ELSE /\ env' = ("wall_rhs" :> [kind |-> "rhs",
                                 forced |-> forced_dependency(env.wall_grad_t),
                                 by |-> r.value]) @@ env
                        /\ pc' = "returned"
    /\ UNCHANGED <<call, inp>>

Next ==
    \/ Normalize
    \/ GetInterfaceBoundariesNoGrad
    \/ MakeOperatorFluidStates
    \/ GIBFluidGrad
    \/ GIBWallGrad
    \/ GetInterfaceBoundaries
    \/ FullBoundaries
    \/ FluidGrad
    \/ WallGrad
    \/ FluidRhs
    \/ WallRhs

Spec == Init /\ [][Next]_vars

-----------------------------------------------------------------------------
(* Properties of the coupled evaluation.                                   *)

IsExchange(ev, tag) == ev.op = "inter_volume_trace_pairs" /\ ev.comm_tag = tag

ExchangesTagged(tag) == {i \in DOMAIN log : IsExchange(log[i], tag)}

DictItems(d) == {d[i] : i \in DOMAIN d}

Parts == 1..inp.discr.nparts

Phase1Done == "fluid_interface_boundaries_no_grad" \in DOMAIN env

Phase2Done == "fluid_interface_boundaries" \in DOMAIN env

IsZeroGradient(g, dim) ==
    /\ Len(g) = dim
    /\ \A i \in 1..dim : g[i] = [kind |-> "num", val |-> 0]

(* What each side sends in phase 1.                                        *)
FluidNoGradData ==
    <<inp.fluid_state.temperature, inp.fluid_state.thermal_conductivity>>

WallNoGradData ==
    <<inp.wall_temperature, inp.wall_model.thermal_conductivity>>

(* The interface boundary of the fluid side on part p is keyed by the      *)
(* interface with the wall volume, and conversely.                         *)
FluidInterfaceKey(p) == InterfaceTag(inp.wall_volume_dd, p)

WallInterfaceKey(p) == InterfaceTag(inp.fluid_volume_dd, p)

(* C6: once phase 1 has run, exactly one exchange tagged _InterVolNoGradTag *)
(* has been made and it carries (temperature, conductivity) of the fluid   *)
(* and of the wall; each side holds one interface boundary per trace pair, *)
(* an InterfaceFluidBoundary on the fluid side and an InterfaceWallBoundary *)
(* on the wall side, whose exterior temperature and conductivity are the   *)
(* OPPOSITE side's traces and whose exterior gradient has dim components,  *)
(* all zero.                                                               *)
C6_Phase1BoundariesHoldOppositeSide ==
    Phase1Done =>
        /\ Cardinality(ExchangesTagged(InterVolNoGradTag)) = 1
        /\ \A i \in ExchangesTagged(InterVolNoGradTag) :
               log[i].data = <<FluidNoGradData, WallNoGradData>>
        /\ Len(env.fluid_interface_boundaries_no_grad) = inp.discr.nparts
        /\ Len(env.wall_interface_boundaries_no_grad) = inp.discr.nparts
        /\ \A p \in Parts :
               /\ FluidInterfaceKey(p) \in DictKeys(env.fluid_interface_boundaries_no_grad)
               /\ WallInterfaceKey(p) \in DictKeys(env.wall_interface_boundaries_no_grad)
               /\ LET f == DictGet(env.fluid_interface_boundaries_no_grad,
                                   FluidInterfaceKey(p))
                      w == DictGet(env.wall_interface_boundaries_no_grad,
                                   WallInterfaceKey(p))
                  IN  /\ f.cls = "InterfaceFluidBoundary"
                      /\ f.ext_t = inp.wall_temperature.at[p]
                      /\ f.ext_kappa = inp.wall_model.thermal_conductivity.at[p]
                      /\ IsZeroGradient(f.ext_grad_t, inp.discr.dim)
                      /\ w.cls = "InterfaceWallBoundary"
                      /\ w.u_ext = inp.fluid_state.temperature.at[p]
                      /\ w.kappa_ext = inp.fluid_state.thermal_conductivity.at[p]
                      /\ IsZeroGradient(w.grad_u_ext, inp.discr.dim)

(* C6, the case: phase 1 has run on a non-empty interface whose two sides  *)
(* differ in temperature and in conductivity.                              *)
C6_Witness ==
    /\ Phase1Done
    /\ inp.discr.nparts >= 1
    /\ inp.fluid_state.temperature.at[1] # inp.wall_temperature.at[1]
    /\ inp.fluid_state.thermal_conductivity.at[1]
           # inp.wall_model.thermal_conductivity.at[1]

(* The gradient operators called from get_interface_boundaries.            *)
GIBGradients(op) ==
    {i \in DOMAIN log : log[i].op = op
                        /\ log[i].caller = "get_interface_boundaries"}

LeftGetInterfaceBoundaries ==
    pc \notin {"start", "phase1", "cache", "gib_fluid_grad", "gib_wall_grad",
               "phase2"}

(* C7: once get_interface_boundaries has been left, the exchange tagged    *)
(* _InterVolTag has been made, after the gradients of both sides were      *)
(* computed with the boundaries of phase 1; it carries (temperature,       *)
(* grad T, conductivity) of each side, and each side holds, for every      *)
(* interface trace pair, a boundary with the opposite side's temperature,  *)
(* the opposite side's computed grad T and the opposite side's             *)
(* conductivity.                                                           *)
C7_Phase2ExchangesComputedGradients ==
    LeftGetInterfaceBoundaries =>
        /\ Phase2Done
        /\ Cardinality(ExchangesTagged(InterVolTag)) = 1
        /\ \A i \in ExchangesTagged(InterVolTag) :
               /\ \E j \in GIBGradients("fluid_grad_t_operator") :
                      /\ j < i
                      /\ DictItems(env.fluid_interface_boundaries_no_grad)
                             \subseteq DictItems(log[j].boundaries)
               /\ \E j \in GIBGradients("grad_operator") :
                      /\ j < i
                      /\ ~log[j].raised
                      /\ DictItems(env.wall_interface_boundaries_no_grad)
                             \subseteq DictItems(log[j].boundaries)
               /\ log[i].data =
                      << <<inp.fluid_state.temperature,
                           env.fluid_grad_temperature,
                           inp.fluid_state.thermal_conductivity>>,
                         <<inp.wall_temperature, env.wall_grad_temperature,
                           inp.wall_model.thermal_conductivity>> >>
        /\ Len(env.fluid_interface_boundaries) = inp.discr.nparts
        /\ Len(env.wall_interface_boundaries) = inp.discr.nparts
        /\ \A p \in Parts :
               /\ FluidInterfaceKey(p) \in DictKeys(env.fluid_interface_boundaries)
               /\ WallInterfaceKey(p) \in DictKeys(env.wall_interface_boundaries)
               /\ LET f == DictGet(env.fluid_interface_boundaries,
                                   FluidInterfaceKey(p))
                      w == DictGet(env.wall_interface_boundaries,
                                   WallInterfaceKey(p))
                  IN  /\ f.ext_t = inp.wall_temperature.at[p]
                      /\ f.ext_grad_t = TraceOnPart(env.wall_grad_temperature, p)
                      /\ f.ext_kappa = inp.wall_model.thermal_conductivity.at[p]
                      /\ w.u_ext = inp.fluid_state.temperature.at[p]
                      /\ w.grad_u_ext = TraceOnPart(env.fluid_grad_temperature, p)
                      /\ w.kappa_ext = inp.fluid_state.thermal_conductivity.at[p]

(* The steps of one evaluation, as the log shows them; the gradient        *)
(* operators lie between them.                                             *)
StageAsCoded(ev) ==
    CASE IsExchange(ev, InterVolNoGradTag) -> 1
      [] ev.op = "make_operator_fluid_states" -> 2
      [] IsExchange(ev, InterVolTag) -> 3
      [] ev.op = "ns_operator" -> 4
      [] ev.op = "_heat_operator" -> 5
      [] OTHER -> 0

StageAsStated(ev) ==
    CASE ev.op = "make_operator_fluid_states" -> 1
      [] IsExchange(ev, InterVolNoGradTag) -> 2
      [] IsExchange(ev, InterVolTag) -> 3
      [] ev.op = "ns_operator" -> 4
      [] ev.op = "_heat_operator" -> 5
      [] OTHER -> 0

(* Every step is made once, after all the steps of a lower stage.          *)
StepsInOrder(Stage(_)) ==
    LET steps == {i \in DOMAIN log : Stage(log[i]) > 0}
    IN  /\ \A i, j \in steps : i < j => Stage(log[i]) < Stage(log[j])
        /\ \A j \in steps : \A s \in 1..(Stage(log[j]) - 1) :
               \E i \in steps : i < j /\ Stage(log[i]) = s

(* C8 as stated: the steps are made in the order cache, phase 1, phase 2,  *)
(* Navier-Stokes operator, wall heat operator.                             *)
C8_OrderAsStated == StepsInOrder(StageAsStated)

(* C8, amended: the steps are made in the order phase 1, cache, phase 2,   *)
(* Navier-Stokes operator, wall heat operator, and the cache is built from *)
(* the fluid boundaries that include those of phase 1.                     *)
C8_OrderAsCoded ==
    /\ StepsInOrder(StageAsCoded)
    /\ \A i \in DOMAIN log :
           log[i].op = "make_operator_fluid_states" =>
               DictItems(log[i].boundaries) =
                   DictItems(env.fluid_boundaries)
                   \cup DictItems(env.fluid_interface_boundaries_no_grad)

(* C8, the case: all five steps have been made.                            *)
C8_Witness ==
    {StageAsCoded(log[i]) : i \in DOMAIN log} = 0..5

InterfaceClasses == {"InterfaceFluidBoundary", "InterfaceWallBoundary"}

IsOperator(ev) == ev.op # "inter_volume_trace_pairs"

IsGradientOperator(ev) == ev.op \in {"fluid_grad_t_operator", "grad_operator"}

IsFinalOperator(ev) == ev.op \in {"ns_operator", "_heat_operator"}

InterfaceBoundariesOf(ev) ==
    {it.v : it \in {x \in DictItems(ev.boundaries) : x.v.cls \in InterfaceClasses}}

ExteriorGradient(b) ==
    IF b.cls = "InterfaceFluidBoundary" THEN b.ext_grad_t ELSE b.grad_u_ext

(* The exchange that delivers the data a given interface boundary holds.   *)
DeliveredBy(b) ==
    IF IsZeroGradient(ExteriorGradient(b), inp.discr.dim)
    THEN InterVolNoGradTag ELSE InterVolTag

ExchangedBefore(tag, i) == \E j \in ExchangesTagged(tag) : j < i

(* C9: a gradient operator is evaluated only after the exchange of phase 1 *)
(* was made, a final operator (ns_operator, the wall heat operator) only   *)
(* after the exchange of phase 2 was made, and every interface boundary an *)
(* operator is given holds data of an exchange made before the operator    *)
(* was called.                                                             *)
C9_OperatorsWaitForExchange ==
    \A i \in DOMAIN log :
        /\ IsGradientOperator(log[i]) => ExchangedBefore(InterVolNoGradTag, i)
        /\ IsFinalOperator(log[i]) => ExchangedBefore(InterVolTag, i)
        /\ IsOperator(log[i]) =>
               \A b \in InterfaceBoundariesOf(log[i]) :
                   ExchangedBefore(DeliveredBy(b), i)

(* C9, the case: a gradient operator was given the interface data of the   *)
(* other side.                                                             *)
C9_Witness ==
    \E i \in DOMAIN log :
        /\ IsGradientOperator(log[i])
        /\ InterfaceBoundariesOf(log[i]) # {}

EvaluationEnded == pc \in {"raised", "returned"}

(* C10: when the evaluation has ended, ns_operator was given exactly the   *)
(* fluid user boundaries and the fluid interface boundaries of phase 2,    *)
(* one per interface trace pair, the wall heat operator exactly the wall   *)
(* user boundaries and the wall interface boundaries of phase 2, and no    *)
(* boundary of phase 1 is in either set.                                   *)
C10_FinalOperatorsGetPhase2Boundaries ==
    EvaluationEnded =>
        /\ Phase2Done
        /\ Len(env.fluid_interface_boundaries) = inp.discr.nparts
        /\ Len(env.wall_interface_boundaries) = inp.discr.nparts
        /\ \E i \in DOMAIN log :
               /\ log[i].op = "ns_operator"
               /\ DictItems(log[i].boundaries) =
                      DictItems(env.fluid_boundaries)
                      \cup DictItems(env.fluid_interface_boundaries)
               /\ DictItems(log[i].boundaries)
                      \cap DictItems(env.fluid_interface_boundaries_no_grad) = {}
        /\ \E i \in DOMAIN log :
               /\ log[i].op = "_heat_operator"
               /\ DictItems(log[i].boundaries) =
                      DictItems(env.wall_boundaries)
                      \cup DictItems(env.wall_interface_boundaries)
               /\ DictItems(log[i].boundaries)
                      \cap DictItems(env.wall_interface_boundaries_no_grad) = {}

(* C11: an evaluation with well-formed inputs ends by returning the pair   *)
(* (fluid_rhs, wall_rhs) and never by raising, and the call the wall heat  *)
(* operator makes into diffusion_operator is accepted.                     *)
C11_EvaluationReturnsBothRhs ==
    /\ EvaluationEnded =>
           /\ pc = "returned"
           /\ {"fluid_rhs", "wall_rhs"} \subseteq DOMAIN env
    /\ \A i \in DOMAIN log : log[i].op = "_heat_operator" => ~log[i].raised

Phase1Variables ==
    [fluid |-> "fluid_interface_boundaries_no_grad",
     wall |-> "wall_interface_boundaries_no_grad"]

(* C13: every gradient operator of an evaluation is given the interface    *)
(* boundaries of phase 1: coupled_grad_t_operator is never handed the      *)
(* boundaries of phase 2, and every interface boundary a gradient operator *)
(* sees has a zero exterior gradient.                                      *)
C13_GradientsUsePhase1Only ==
    \A i \in DOMAIN log :
        IsGradientOperator(log[i]) =>
            /\ log[i].given = Phase1Variables
            /\ \A b \in InterfaceBoundariesOf(log[i]) :
                   IsZeroGradient(ExteriorGradient(b), inp.discr.dim)

(* C14: in one evaluation the wall-side grad_operator is evaluated at most *)
(* once, and the wall heat operator hands the computed wall gradient to    *)
(* diffusion_operator as grad_u.                                           *)
C14_WallGradientComputedOnce ==
    /\ Cardinality({i \in DOMAIN log : log[i].op = "grad_operator"}) <= 1
    /\ \A i \in DOMAIN log :
           log[i].op = "_heat_operator" => "grad_u" \in log[i].keywords

-----------------------------------------------------------------------------
(* grad_operator, diffusion_operator and _normalize_arguments called on    *)
(* their own: call holds the call in progress, its arguments and what it   *)
(* returned or raised.                                                     *)

OpDColls == {[dim |-> d, nparts |-> 0] : d \in Dims}

OpFields == {ScalarField(<<t>>) : t \in 1..MaxT}

Item(k, v) == [k |-> k, v |-> v]

DirichletItem == Item(UserKey("btag", "wall_far"), DirichletDiffusionBoundary(1))

NeumannItem == Item(UserKey("dofdesc", "wall_near"), NeumannDiffusionBoundary(0))

InterfaceItem ==
    Item(InterfaceTag("fluid", 1),
         InterfaceWallBoundary(1, <<ZeroTimes(1)>>, 1))

(* A value that is not a DiffusionBoundary.                                *)
ForeignItem == Item(UserKey("btag", "outflow"), [cls |-> "PrescribedFluidBoundary"])

OpDicts ==
    {<<>>, <<DirichletItem>>, <<NeumannItem>>, <<DirichletItem, NeumannItem>>,
     <<DirichletItem, ForeignItem>>, <<InterfaceItem>>,
     <<DirichletItem, InterfaceItem>>, <<InterfaceItem, ForeignItem>>,
     <<DirichletItem,
       Item(UserKey("dofdesc", "wall_far"), NeumannDiffusionBoundary(0))>>}

(* Lists of dicts.                                                         *)
ListOf(dicts) == [i \in DOMAIN dicts |-> PyVal("dict", dicts[i])]

OpLists ==
    {ListOf(<<<<DirichletItem>>>>),
     ListOf(<<<<DirichletItem>>, <<NeumannItem>>>>),
     ListOf(<<<<DirichletItem>>, <<DirichletItem, ForeignItem>>>>),
     ListOf(<<<<DirichletItem, ForeignItem>>, <<NeumannItem>>>>)}

OpBoundaries ==
    {PyVal("dict", d) : d \in OpDicts} \cup {PyVal("list", l) : l \in OpLists}

OpU ==
    {PyVal("DOFArray", f) : f \in OpFields}
    \cup {PyVal("ndarray", VectorField(<<f, ScalarField(<<MaxT>>)>>)) :
               f \in OpFields}

OpKappas == {PyVal("number", k) : k \in KappaVals}

(* A gradient the caller computed beforehand.                              *)
SuppliedGradient(dim) == GradientOf([op |-> "supplied by the caller"], dim)

OpGradU(dim) == {PyNone, PyVal("ndarray", SuppliedGradient(dim))}

(* The ways diffusion_operator is called: the positional arguments after   *)
(* dcoll and the keyword arguments meant for _normalize_arguments.         *)
CallForms ==
    {"canonical", "canonical_default_tag", "legacy", "alpha",
     "canonical_extra_positional", "legacy_extra_positional",
     "unexpected_keyword"}

AcceptedForms == {"canonical", "canonical_default_tag", "legacy", "alpha"}

CallArgs(form, kappa, boundaries, u, q) ==
    CASE form \in {"canonical", "canonical_default_tag", "unexpected_keyword"}
             -> <<kappa, boundaries, u>>
      [] form = "legacy" -> <<kappa, PyVal("tag", q), boundaries, u>>
      [] form = "alpha" -> <<>>
      [] form = "canonical_extra_positional"
             -> <<kappa, boundaries, u, PyVal("tag", q)>>
      [] form = "legacy_extra_positional"
             -> <<kappa, PyVal("tag", q), boundaries, u, PyNone>>

CallKwargs(form, kappa, boundaries, u, q) ==
    CASE form = "canonical" -> [quadrature_tag |-> PyVal("tag", q)]
      [] form = "alpha" -> [alpha |-> kappa, boundaries |-> boundaries,
                            u |-> u, quadrature_tag |-> PyVal("tag", q)]
      [] form = "unexpected_keyword" -> [quadrature_tag |-> PyVal("tag", q),
                                         penalty_amount |-> PyNone]
      [] OTHER -> <<>>

(* The quadrature tag a call form asks for.                                *)
TagsOf(form) ==
    IF form = "canonical_default_tag" THEN {DISCR_TAG_BASE} ELSE QuadratureTags

CallNormalizeArguments ==
    /\ call = NoCall
    /\ \E form \in CallForms, kappa \in OpKappas, boundaries \in OpBoundaries,
          u \in OpU :
         \E q \in TagsOf(form) :
            LET args == CallArgs(form, kappa, boundaries, u, q)
                kwargs == CallKwargs(form, kappa, boundaries, u, q)
            IN  call' = [op |-> "_normalize_arguments", form |-> form,
                         kappa |-> kappa, boundaries |-> boundaries, u |-> u,
                         quadrature_tag |-> q, args |-> args, kwargs |-> kwargs,
                         result |-> normalize_arguments(args, kwargs)]
    /\ UNCHANGED <<pc, inp, env, log>>

CallGradOperator ==
    /\ call = NoCall
    /\ \E dcoll \in OpDColls, boundaries \in OpBoundaries, u \in OpU,
          q \in QuadratureTags :
         call' = [op |-> "grad_operator", dcoll |-> dcoll,
                  boundaries |-> boundaries, u |-> u, quadrature_tag |-> q,
                  result |-> grad_operator(dcoll, boundaries, u, q, VOLUME_ALL)]
    /\ UNCHANGED <<pc, inp, env, log>>

CallDiffusionOperator ==
    /\ call = NoCall
    /\ \E dcoll \in OpDColls, form \in CallForms, kappa \in OpKappas,
          boundaries \in OpBoundaries, u \in OpU, return_grad_u \in BOOLEAN :
         \E q \in TagsOf(form), grad_u \in OpGradU(dcoll.dim) :
            LET args == CallArgs(form, kappa, boundaries, u, q)
                kwargs == CallKwargs(form, kappa, boundaries, u, q)
                kw == [return_grad_u |-> PyVal("bool", return_grad_u),
                       grad_u |-> grad_u] @@ kwargs
            IN  call' = [op |-> "diffusion_operator", dcoll |-> dcoll,
                         form |-> form, kappa |-> kappa,
                         boundaries |-> boundaries, u |-> u,
                         quadrature_tag |-> q, grad_u |-> grad_u,
                         return_grad_u |-> return_grad_u,
                         args |-> args, kwargs |-> kwargs,
                         result |-> diffusion_operator(dcoll, args, kw)]
    /\ UNCHANGED <<pc, inp, env, log>>

OperatorInit ==
    /\ call = NoCall
    /\ CoupledOff

OperatorNext ==
    \/ CallNormalizeArguments
    \/ CallGradOperator
    \/ CallDiffusionOperator
    \/ Return

OperatorSpec == OperatorInit /\ [][OperatorNext]_vars
-----------------------------------------------------------------------------
(* The operators called on their own.                                      *)

OperatorNames == {"grad_operator", "diffusion_operator"}

(* The call in progress is an operator call whose arguments                *)
(* _normalize_arguments accepts (grad_operator takes them as they are).    *)
OperatorCalled ==
    /\ call.op \in OperatorNames
    /\ call.op = "diffusion_operator" => call.form \in AcceptedForms

ScalarCall ==
    /\ OperatorCalled
    /\ call.u.type = "DOFArray"
    /\ call.boundaries.type = "dict"

(* u is an object array and boundaries a list of the same length.          *)
VectorCall ==
    /\ OperatorCalled
    /\ call.u.type = "ndarray"
    /\ call.boundaries.type = "list"
    /\ Len(call.boundaries.val) = Len(call.u.val.comps)

(* The places of a dict whose value is not a DiffusionBoundary.            *)
Unrecognized(dict) ==
    {i \in DOMAIN dict : dict[i].v.cls \notin DiffusionBoundarySubclasses}

WorkOps(work) == {work[i].op : i \in DOMAIN work}

(* C12: every boundary variant of a wall boundary set accepts the calls    *)
(* the operators make and calls the flux kernels with arguments they       *)
(* accept: an operator call on a scalar u whose boundaries are all         *)
(* Dirichlet, Neumann or InterfaceWallBoundary objects raises nothing.     *)
C12_VariantsAcceptOperatorCalls ==
    (ScalarCall /\ Unrecognized(call.boundaries.val) = {})
        => ~call.result.raised

(* The same for the two variants of diffusion.py alone.                    *)
DiffusionVariantsAcceptOperatorCalls ==
    (/\ ScalarCall
     /\ \A i \in DOMAIN call.boundaries.val :
            call.boundaries.val[i].v.cls
                \in {"DirichletDiffusionBoundary", "NeumannDiffusionBoundary"})
        => ~call.result.raised

(* C15: diffusion_operator calls grad_operator if and only if no grad_u    *)
(* was supplied; a supplied grad_u is the gradient of the volume term and  *)
(* of every interior and boundary flux and the one returned with           *)
(* return_grad_u, for scalar and for vector-valued u.                      *)
GradUSupplied == call.grad_u.type # "NoneType"

SuppliedGradientUsed ==
    /\ "grad_operator" \notin WorkOps(call.result.work)
    /\ \A i \in DOMAIN call.result.work :
           "grad_u" \in DOMAIN call.result.work[i]
               => call.result.work[i].grad_u = call.grad_u.val
    /\ (~call.result.raised /\ call.return_grad_u /\ call.u.type = "DOFArray")
           => call.result.value.grad_u = call.grad_u.val

C15_GradOperatorIffNoGradU ==
    (OperatorCalled /\ call.op = "diffusion_operator") =>
        /\ GradUSupplied => SuppliedGradientUsed
        /\ (~GradUSupplied /\ ~call.result.raised)
               => "grad_operator" \in WorkOps(call.result.work)

(* The statement of C15 for scalar u alone.                                *)
ScalarGradOperatorIffNoGradU ==
    (ScalarCall /\ call.op = "diffusion_operator") =>
        /\ GradUSupplied => SuppliedGradientUsed
        /\ (~GradUSupplied /\ ~call.result.raised)
               => "grad_operator" \in WorkOps(call.result.work)

(* The call raised the TypeError of an unrecognized boundary type naming   *)
(* one of the given tags.                                                  *)
RaisedUnrecognized(tags) ==
    /\ call.result.raised
    /\ call.result.exc.type = "TypeError"
    /\ call.result.exc.msg.text = "Unrecognized boundary type for tag"
    /\ call.result.exc.msg.tag \in tags

(* C16: for scalar u, if some value of boundaries is not a                 *)
(* DiffusionBoundary, grad_operator and diffusion_operator raise TypeError *)
(* naming the tag of such a value, before any volume term, flux or         *)
(* internal grad_operator call.                                            *)
C16_UnrecognizedBoundaryFailsFast ==
    (ScalarCall /\ Unrecognized(call.boundaries.val) # {}) =>
        LET b == normalize_boundaries(call.boundaries.val)
        IN  /\ RaisedUnrecognized({b[i].k : i \in Unrecognized(b)})
            /\ call.result.work = <<>>

C16_Witness ==
    /\ ScalarCall
    /\ call.op = "diffusion_operator"
    /\ call.boundaries.val = <<DirichletItem, ForeignItem>>
    /\ RaisedUnrecognized({normalize_boundaries(<<ForeignItem>>)[1].k})
    /\ call.result.work = <<>>

(* C17: for vector-valued u, if the dict of any component holds a value    *)
(* that is not a DiffusionBoundary, the operators raise TypeError before   *)
(* any volume term or flux of any component.                               *)
C17_VectorFailsBeforeAnyWork ==
    (/\ VectorCall
     /\ \E i \in DOMAIN call.boundaries.val :
            Unrecognized(call.boundaries.val[i].val) # {}) =>
        /\ call.result.raised
        /\ call.result.exc.type = "TypeError"
        /\ call.result.work = <<>>

(* The scalar operator of the call applied to component i.                 *)
ComponentResult(i) ==
    LET b_i == call.boundaries.val[i]
        u_i == PyVal("DOFArray", call.u.val.comps[i])
    IN  IF call.op = "grad_operator"
        THEN grad_operator(call.dcoll, b_i, u_i, call.quadrature_tag, VOLUME_ALL)
        ELSE diffusion_operator(call.dcoll, <<call.kappa, b_i, u_i>>,
                 [quadrature_tag |-> PyVal("tag", call.quadrature_tag),
                  return_grad_u |-> PyVal("bool", call.return_grad_u)])

RaisedTypeErrorAtOnce(text) ==
    /\ call.result.raised
    /\ call.result.exc.type = "TypeError"
    /\ call.result.exc.msg.text = text
    /\ call.result.work = <<>>

(* C18: with an object array u the operators raise TypeError before any    *)
(* work if boundaries is not a list or its length is not that of u; with   *)
(* equal lengths the result has the length of u and its component i is the *)
(* scalar operator applied to u[i] with boundaries[i].                     *)
C18_VectorCallsAreElementwise ==
    (OperatorCalled /\ call.u.type = "ndarray") =>
        /\ call.boundaries.type # "list" =>
               RaisedTypeErrorAtOnce(
                   "boundaries must be a list if u is an object array")
        /\ (/\ call.boundaries.type = "list"
            /\ Len(call.boundaries.val) # Len(call.u.val.comps)) =>
               RaisedTypeErrorAtOnce("boundaries must be the same length as u")
        /\ (VectorCall /\ ~call.result.raised) =>
               /\ Len(call.result.value) = Len(call.u.val.comps)
               /\ \A i \in DOMAIN call.u.val.comps :
                      /\ ~ComponentResult(i).raised
                      /\ call.result.value[i] = ComponentResult(i).value

C18_Witness ==
    /\ VectorCall
    /\ call.op = "grad_operator"
    /\ call.boundaries.val = ListOf(<<<<DirichletItem>>, <<NeumannItem>>>>)
    /\ ~call.result.raised
    /\ Len(call.result.value) = 2
    /\ call.result.value[2] = ComponentResult(2).value

AllArgNames == {"alpha", "kappa", "quad_tag", "boundaries", "u", "quadrature_tag"}

(* The number of positional arguments the form of a call allows: the       *)
(* legacy form is the one whose second argument is no dict and no list.    *)
PositionalLimit(args) ==
    IF Len(args) >= 2 /\ args[2].type \notin {"dict", "list"} THEN 4 ELSE 3

(* C19: _normalize_arguments raises TypeError for a keyword outside alpha, *)
(* kappa, quad_tag, boundaries, u, quadrature_tag and for more positional  *)
(* arguments than the form allows (3 canonical, 4 legacy);                 *)
(* diffusion_operator raises it before grad_operator or any flux.          *)
C19_AdapterRejectsBadArguments ==
    (/\ call.op \in {"_normalize_arguments", "diffusion_operator"}
     /\ \/ DOMAIN call.kwargs \ AllArgNames # {}
        \/ Len(call.args) > PositionalLimit(call.args)) =>
        /\ call.result.raised
        /\ call.result.exc.type = "TypeError"
        /\ call.op = "diffusion_operator" => call.result.work = <<>>

C19_Witness ==
    /\ call.op = "diffusion_operator"
    /\ call.form = "unexpected_keyword"
    /\ call.boundaries = PyVal("dict", <<DirichletItem>>)
    /\ "penalty_amount" \in DOMAIN call.kwargs
    /\ call.result.raised
    /\ call.result.exc.type = "TypeError"
    /\ call.result.work = <<>>

(* The DeprecationWarnings a call form gives rise to.                      *)
WarningsOf(form) ==
    CASE form = "alpha" -> {"alpha"}
      [] form = "legacy" -> {"quad_tag"}
      [] OTHER -> {}

(* C20: the legacy positional call (kappa, q, boundaries, u), the          *)
(* canonical call (kappa, boundaries, u, quadrature_tag=q) and the call    *)
(* with alpha=kappa normalize to (kappa, boundaries, u, q); alpha and      *)
(* quad_tag give a DeprecationWarning; an omitted quadrature tag is        *)
(* DISCR_TAG_BASE.                                                         *)
C20_CallFormsNormalizeAlike ==
    (call.op = "_normalize_arguments" /\ call.form \in AcceptedForms) =>
        /\ ~call.result.raised
        /\ call.result.value.kappa = call.kappa
        /\ call.result.value.boundaries.type = call.boundaries.type
        /\ call.result.value.boundaries = call.boundaries
        /\ call.result.value.u.type = call.u.type
        /\ call.result.value.u = call.u
        /\ call.result.value.quadrature_tag = PyVal("tag", call.quadrature_tag)
        /\ call.form = "canonical_default_tag" =>
               call.result.value.quadrature_tag.val = DISCR_TAG_BASE
        /\ call.result.value.warnings = WarningsOf(call.form)

C20_Witness ==
    /\ call.op = "_normalize_arguments"
    /\ call.form = "legacy"
    /\ call.boundaries.type = "list"
    /\ call.quadrature_tag = DISCR_TAG_QUAD
    /\ ~call.result.raised
    /\ call.result.value.quadrature_tag = PyVal("tag", DISCR_TAG_QUAD)
    /\ call.result.value.warnings = {"quad_tag"}

C20_AlphaWitness ==
    /\ call.op = "_normalize_arguments"
    /\ call.form = "alpha"
    /\ ~call.result.raised
    /\ call.result.value.kappa = call.kappa
    /\ call.result.value.warnings = {"alpha"}
-----------------------------------------------------------------------------
(* The library as a whole: an operator is called on its own, or the        *)
(* coupled operator is evaluated.                                          *)

LibrarySpec ==
    (OperatorInit \/ Init) /\ [][(pc = "off" /\ OperatorNext) \/ Next]_vars

ExchangeTags ==
    <<DiffusionStateTag, DiffusionKappaTag, DiffusionGradTag,
      InterVolNoGradTag, InterVolTag>>

(* The payload each interior exchange tag is used for.                     *)
InteriorPayload(tag) ==
    CASE tag = DiffusionStateTag -> "u"
      [] tag = DiffusionKappaTag -> "kappa"
      [] tag = DiffusionGradTag -> "grad_u"
      [] OTHER -> "none"

IsInteriorExchange(ev) == ev.op = "interior_trace_pairs"

(* Every interior exchange of a work trace uses the tag of its payload,    *)
(* and the kappa and grad_u exchanges come in pairs over the same volume.  *)
InteriorTagsUnambiguous(work) ==
    \A i \in DOMAIN work :
        IsInteriorExchange(work[i]) =>
            /\ work[i].payload = InteriorPayload(work[i].tag)
            /\ work[i].payload = "kappa" =>
                   /\ i + 1 \in DOMAIN work
                   /\ IsInteriorExchange(work[i + 1])
                   /\ work[i + 1].payload = "grad_u"
                   /\ work[i + 1].volume_dd = work[i].volume_dd
            /\ work[i].payload = "grad_u" =>
                   /\ i - 1 \in DOMAIN work
                   /\ IsInteriorExchange(work[i - 1])
                   /\ work[i - 1].payload = "kappa"

(* What the two sides send in an exchange between the volumes: phase 1     *)
(* (T, kappa), phase 2 (T, grad T, kappa).                                 *)
InterVolumePayload(ev) ==
    IF Len(ev.data[1]) = 2 /\ Len(ev.data[2]) = 2
    THEN IF ev.data = <<FluidNoGradData, WallNoGradData>>
         THEN "T, kappa" ELSE "other"
    ELSE IF Len(ev.data[1]) = 3 /\ Len(ev.data[2]) = 3
    THEN IF /\ <<ev.data[1][1], ev.data[1][3]>> = FluidNoGradData
            /\ <<ev.data[2][1], ev.data[2][3]>> = WallNoGradData
            /\ ev.data[1][2].kind = "vector"
            /\ ev.data[2][2].kind = "vector"
         THEN "T, grad T, kappa" ELSE "other"
    ELSE "other"

InterVolumeTagsUnambiguous ==
    \A i \in DOMAIN log :
        log[i].op = "inter_volume_trace_pairs" =>
            /\ log[i].comm_tag \in {InterVolNoGradTag, InterVolTag}
            /\ log[i].comm_tag = InterVolNoGradTag
                   <=> InterVolumePayload(log[i]) = "T, kappa"
            /\ log[i].comm_tag = InterVolTag
                   <=> InterVolumePayload(log[i]) = "T, grad T, kappa"

(* C21: the interior exchange of u uses _DiffusionStateTag, of kappa       *)
(* _DiffusionKappaTag, of grad u _DiffusionGradTag, phase 1                *)
(* _InterVolNoGradTag and phase 2 _InterVolTag; the five tags are pairwise *)
(* distinct and each tag carries one kind of payload in every call, so no  *)
(* sequence of calls uses a tag for two kinds; the kappa and grad_u        *)
(* exchanges zipped in diffusion_operator are made over the same volume.   *)
C21_ExchangeTagsUnambiguous ==
    /\ \A i, j \in DOMAIN ExchangeTags :
           i # j => ExchangeTags[i] # ExchangeTags[j]
    /\ call.op \in OperatorNames => InteriorTagsUnambiguous(call.result.work)
    /\ \A i \in DOMAIN log :
           "work" \in DOMAIN log[i] => InteriorTagsUnambiguous(log[i].work)
    /\ InterVolumeTagsUnambiguous

C21_Witness ==
    /\ call.op = "diffusion_operator"
    /\ ~call.result.raised
    /\ ~GradUSupplied
    /\ {DiffusionStateTag, DiffusionKappaTag, DiffusionGradTag} \subseteq
           {call.result.work[i].tag :
                i \in {j \in DOMAIN call.result.work :
                          IsInteriorExchange(call.result.work[j])}}

(* Both exchanges between the volumes have been made and the wall gradient *)
(* has exchanged u across the interior faces.                              *)
C21_CoupledWitness ==
    /\ ExchangesTagged(InterVolNoGradTag) # {}
    /\ ExchangesTagged(InterVolTag) # {}
    /\ \E i \in DOMAIN log :
           /\ "work" \in DOMAIN log[i]
           /\ \E j \in DOMAIN log[i].work :
                  /\ IsInteriorExchange(log[i].work[j])
                  /\ log[i].work[j].tag = DiffusionStateTag
-----------------------------------------------------------------------------
(* The two sides have the same temperature and the same conductivity at    *)
(* every point of the interface.                                           *)
SameInterfaceTraces ==
    \A p \in Parts :
        /\ inp.fluid_state.temperature.at[p] = inp.wall_temperature.at[p]
        /\ inp.fluid_state.thermal_conductivity.at[p]
               = inp.wall_model.thermal_conductivity.at[p]

(* Every part of the interface has a boundary in both dicts, and what the  *)
(* boundary stores as exterior temperature and conductivity is the         *)
(* interior trace of the side that owns it.                                *)
ZeroJump(fluid_interface, wall_interface) ==
    \A p \in Parts :
        /\ FluidInterfaceKey(p) \in DictKeys(fluid_interface)
        /\ WallInterfaceKey(p) \in DictKeys(wall_interface)
        /\ LET f == DictGet(fluid_interface, FluidInterfaceKey(p))
               w == DictGet(wall_interface, WallInterfaceKey(p))
           IN  /\ f.ext_t = inp.fluid_state.temperature.at[p]
               /\ f.ext_kappa = inp.fluid_state.thermal_conductivity.at[p]
               /\ w.u_ext = inp.wall_temperature.at[p]
               /\ w.kappa_ext = inp.wall_model.thermal_conductivity.at[p]

(* Lines 355-386 of get_interface_boundaries applied to the inputs of the  *)
(* evaluation and to gradients of both sides.                              *)
Phase2Construction ==
    get_interface_boundaries_exchange(inp.discr, inp.wall_model,
        inp.fluid_volume_dd, inp.wall_volume_dd, inp.fluid_state,
        inp.wall_temperature,
        GradientOf([op |-> "fluid_grad_t_operator"], inp.discr.dim),
        GradientOf([op |-> "grad_operator"], inp.discr.dim))

(* C22: if fluid and wall have the same temperature and conductivity       *)
(* traces on the interface, every interface boundary built in phase 1 and  *)
(* in phase 2 stores as exterior temperature and conductivity the interior *)
(* trace of its own side.                                                  *)
C22_ZeroJump ==
    SameInterfaceTraces =>
        /\ Phase1Done => ZeroJump(env.fluid_interface_boundaries_no_grad,
                                  env.wall_interface_boundaries_no_grad)
        /\ Phase2Done => ZeroJump(env.fluid_interface_boundaries,
                                  env.wall_interface_boundaries)
        /\ ZeroJump(Phase2Construction.fluid, Phase2Construction.wall)

C22_Witness ==
    /\ SameInterfaceTraces
    /\ Phase1Done
    /\ inp.discr.nparts = MaxParts
    /\ Len(env.wall_interface_boundaries_no_grad) = MaxParts
    /\ inp.wall_temperature.at[1] # inp.wall_model.thermal_conductivity.at[1]
    /\ DictGet(env.wall_interface_boundaries_no_grad, WallInterfaceKey(1)).u_ext
           = inp.wall_temperature.at[1]
-----------------------------------------------------------------------------
(* The flux kernels once more.                                             *)

(* The call is Dirichlet(f).get_grad_flux with f constant along the        *)
(* boundary and the interior trace of u equal to f everywhere.             *)
InteriorTraceEqualsBoundaryValue ==
    /\ call.op = "Dirichlet.get_grad_flux"
    /\ \A k \in DOMAIN call.self.value : call.self.value[k] = call.self.value[1]
    /\ Restrict(call.dd_bdry.domain_tag, call.u) = call.self.value

(* C23: for every constant f, if the interior trace of u equals f          *)
(* everywhere, DirichletDiffusionBoundary(f).get_grad_flux yields the flux *)
(* grad_flux gives for a trace pair whose two sides both equal f.          *)
C23_DirichletConsistentWithInteriorFace ==
    InteriorTraceEqualsBoundaryValue =>
        call.result = grad_flux(call.dcoll,
                          TracePair(call.dd_bdry, call.self.value,
                                    call.self.value),
                          call.quadrature_tag)

C23_Witness ==
    /\ InteriorTraceEqualsBoundaryValue
    /\ ~IsZeroArray(call.self.value)
    /\ call.quadrature_tag = DISCR_TAG_QUAD
    /\ \E i \in DOMAIN call.result.data :
           ~IsZeroArray(call.result.data[i][call.dd_bdry.domain_tag])

(* The flux returned by the call lives on the all-faces discretization     *)
(* with the given discretization tag.                                      *)
GradFluxLivesOn(discr_tag) ==
    /\ call.result.dd = DOFDesc(FACE_RESTR_ALL, discr_tag)
    /\ \A i \in DOMAIN call.result.data :
           \A g \in Faces :
               DOMAIN call.result.data[i][g]
                   = NodesOf(DOFDesc(FACE_RESTR_ALL, discr_tag))

(* C24 as stated: the value returned by grad_flux lives on the             *)
(* base-resolution all-faces discretization, for every quadrature_tag.     *)
C24_GradFluxOnBaseAllFaces ==
    call.op = "grad_flux" => GradFluxLivesOn(DISCR_TAG_BASE)

(* C24: the value returned by grad_flux lives on the all-faces             *)
(* discretization of the quadrature_tag it was called with; it is not      *)
(* projected back to the base resolution.                                  *)
C24_GradFluxOnQuadratureAllFaces ==
    call.op = "grad_flux" => GradFluxLivesOn(call.quadrature_tag)

C24_Witness ==
    /\ call.op = "grad_flux"
    /\ call.quadrature_tag = DISCR_TAG_QUAD
    /\ call.u_tpair.dd.discretization_tag = DISCR_TAG_BASE
    /\ call.result.dd.discretization_tag = DISCR_TAG_QUAD
    /\ \E i \in DOMAIN call.result.data :
           Len(call.result.data[i][call.u_tpair.dd.domain_tag]) = 3
-----------------------------------------------------------------------------
(* Data dependencies of the returned right-hand sides.                     *)

(* The operators whose gradients are components of comps.                  *)
GradientOperatorsOf(comps) ==
    {comps[i].by.op : i \in {j \in DOMAIN comps : comps[j].kind = "grad"}}

(* The operators whose gradients were traced onto the interface and stored *)
(* as exterior gradient in an interface boundary of the given dict.        *)
TracedGradientOperators(boundaries) ==
    UNION {{g[i].of.by.op : i \in {j \in DOMAIN g : g[j].kind = "trace"}} :
           g \in {ExteriorGradient(it.v) :
                  it \in {x \in DictItems(boundaries) :
                          x.v.cls \in InterfaceClasses}}}

(* The gradient operators a right-hand side depends on: those of the       *)
(* forced-dependency operands, and those whose gradients reach it through  *)
(* the interface boundaries its operator was given.                        *)
GradientDependencies(rhs, boundaries) ==
    GradientOperatorsOf(rhs.forced) \cup TracedGradientOperators(boundaries)

BothGradients == {"fluid_grad_t_operator", "grad_operator"}

(* C25: a right-hand side that was computed depends on the gradient        *)
(* computation of the fluid and on that of the wall.                       *)
C25_RhsDependsOnBothGradients ==
    /\ "fluid_rhs" \in DOMAIN env =>
           BothGradients \subseteq
               GradientDependencies(env.fluid_rhs, env.fluid_full_boundaries)
    /\ "wall_rhs" \in DOMAIN env =>
           BothGradients \subseteq
               GradientDependencies(env.wall_rhs, env.wall_full_boundaries)

(* What does hold: the fluid right-hand side depends on the fluid gradient.*)
C25_FluidRhsDependsOnFluidGradient ==
    "fluid_rhs" \in DOMAIN env =>
        GradientDependencies(env.fluid_rhs, env.fluid_full_boundaries)
            = {"fluid_grad_t_operator"}
-----------------------------------------------------------------------------
(* The caller's boundary mappings.                                         *)

(* The names under which coupled_ns_heat_operator holds boundary mappings; *)
(* these are what it hands to the operators it calls.                      *)
BoundaryMappings ==
    {"fluid_boundaries", "wall_boundaries",
     "fluid_interface_boundaries_no_grad", "wall_interface_boundaries_no_grad",
     "fluid_interface_boundaries", "wall_interface_boundaries",
     "fluid_full_boundaries", "wall_full_boundaries"}

HasInterfaceBoundary(dict) ==
    \E i \in DOMAIN dict : dict[i].v.cls \in InterfaceClasses

(* A step changes neither the mappings the caller passed nor a mapping the *)
(* evaluation already holds.                                               *)
MappingsUnchanged ==
    /\ inp'.fluid_boundaries = inp.fluid_boundaries
    /\ inp'.wall_boundaries = inp.wall_boundaries
    /\ \A k \in BoundaryMappings \cap DOMAIN env :
           k \in DOMAIN env' /\ env'[k] = env[k]

(* The mappings the caller passed hold no interface boundary, and what the *)
(* evaluation holds is determined by the inputs alone.                     *)
MappingsRebuiltFromInputs ==
    /\ ~HasInterfaceBoundary(inp.fluid_boundaries)
    /\ ~HasInterfaceBoundary(inp.wall_boundaries)
    /\ "fluid_boundaries" \in DOMAIN env =>
           /\ env.fluid_boundaries = normalize_boundaries(inp.fluid_boundaries)
           /\ env.wall_boundaries = normalize_boundaries(inp.wall_boundaries)
    /\ Phase1Done =>
           LET r == get_interface_boundaries_no_grad(inp.discr, inp.wall_model,
                        inp.fluid_volume_dd, inp.wall_volume_dd,
                        inp.fluid_state, inp.wall_temperature)
           IN  /\ env.fluid_interface_boundaries_no_grad = r.fluid
               /\ env.wall_interface_boundaries_no_grad = r.wall

(* C26: no step of an evaluation changes the boundary mappings the caller  *)
(* passed or a mapping the evaluation handed to an operator, no interface  *)
(* boundary is put into the caller's mappings, and the mappings the        *)
(* evaluation works with are rebuilt from the inputs.                      *)
C26_CallerMappingsUnchanged ==
    [](MappingsRebuiltFromInputs) /\ [][MappingsUnchanged]_vars

(* An operator was given a user boundary together with an interface        *)
(* boundary, and the caller's key had to be re-keyed.                      *)
C26_Witness ==
    /\ "fluid_boundaries" \in DOMAIN env
    /\ Len(inp.fluid_boundaries) > 0
    /\ inp.fluid_boundaries[1].k.form = "btag"
    /\ env.fluid_boundaries # inp.fluid_boundaries
    /\ \E i \in DOMAIN log :
           /\ IsOperator(log[i])
           /\ Len(log[i].boundaries) > Len(inp.fluid_boundaries)
           /\ HasInterfaceBoundary(log[i].boundaries)
           /\ \E j \in DOMAIN log[i].boundaries :
                  log[i].boundaries[j].v = inp.fluid_boundaries[1].v
-----------------------------------------------------------------------------
(* Transport models (mirgecom/transport.py).                               *)

(* Exact rationals, for the factor 2/3 and the quotients of the models.    *)
Q(n, d) == [kind |-> "num", num |-> n, den |-> d]

(* q*v for a rational q and a property v: a number, or a mixture rule of   *)
(* the Pyrometheus mechanism times a rational factor.                      *)
Scaled(q, v) ==
    IF v.kind = "num" THEN Q(q.num * v.num, q.den * v.den)
    ELSE [v EXCEPT !.times = Q(q.num * @.num, q.den * @.den)]

(* obj.name: AttributeError if obj is None.                                *)
GetAttr(obj, name) ==
    IF obj.type = "NoneType"
    THEN Raised("AttributeError",
                [text |-> "'NoneType' object has no attribute", attr |-> name])
    ELSE Returned(obj.val[name])

(* lines 246-251 *)
PowerLawTransport_viscosity(self, cv, dv) ==
    IF GetAttr(dv, "temperature").raised THEN GetAttr(dv, "temperature")
    ELSE Returned(Q(self.scaling_factor * self.beta
                        * dv.val.temperature ^ self.n, 1))

(* lines 265-277: the viscosity is evaluated first, then eos is asked for  *)
(* the heat capacity at dv.temperature.                                    *)
PowerLawTransport_thermal_conductivity(self, cv, dv, eos) ==
    IF PowerLawTransport_viscosity(self, cv, dv).raised
    THEN PowerLawTransport_viscosity(self, cv, dv)
    ELSE IF GetAttr(eos, "heat_capacity_cv").raised
    THEN GetAttr(eos, "heat_capacity_cv")
    ELSE Returned(Scaled(Q(self.sigma * eos.val.heat_capacity_cv, 1),
                         PowerLawTransport_viscosity(self, cv, dv).value))

(* kappa/(cv.mass*lewis*cp), one component per species (lines 291-294 and  *)
(* 405-408).                                                               *)
LewisDiffusivity(kappa, cv, dv, eos, lewis) ==
    IF kappa.raised THEN kappa
    ELSE IF GetAttr(eos, "heat_capacity_cp").raised
    THEN GetAttr(eos, "heat_capacity_cp")
    ELSE IF GetAttr(dv, "temperature").raised THEN GetAttr(dv, "temperature")
    ELSE Returned(VectorField([i \in DOMAIN lewis |->
             Scaled(Q(1, cv.mass * lewis[i] * eos.val.heat_capacity_cp),
                    kappa.value)]))

(* lines 235-295 *)
PowerLawTransport_method(self, method, cv, dv, eos) ==
    CASE method = "viscosity" -> PowerLawTransport_viscosity(self, cv, dv)
      [] method = "bulk_viscosity"
             -> IF PowerLawTransport_viscosity(self, cv, dv).raised
                THEN PowerLawTransport_viscosity(self, cv, dv)
                ELSE Returned(Scaled(Q(self.alpha, 1),
                         PowerLawTransport_viscosity(self, cv, dv).value))
      [] method = "volume_viscosity"
             -> IF PowerLawTransport_viscosity(self, cv, dv).raised
                THEN PowerLawTransport_viscosity(self, cv, dv)
                ELSE Returned(Scaled(Q(3 * self.alpha - 2, 3),
                         PowerLawTransport_viscosity(self, cv, dv).value))
      [] method = "thermal_conductivity"
             -> PowerLawTransport_thermal_conductivity(self, cv, dv, eos)
      [] method = "species_diffusivity"
             -> IF self.lewis.type # "NoneType"
                THEN LewisDiffusivity(
                         PowerLawTransport_thermal_conductivity(self, cv, dv, eos),
                         cv, dv, eos, self.lewis.val)
                ELSE Returned(VectorField([i \in DOMAIN self.d_alpha |->
                                              Q(self.d_alpha[i], 1)]))

(* lines 340-345 *)
MixtureAveragedTransport_viscosity(self, cv, dv) ==
    IF GetAttr(dv, "temperature").raised THEN GetAttr(dv, "temperature")
    ELSE Returned([kind |-> "mixavg", fn |-> "get_mixture_viscosity_mixavg",
                   args |-> <<dv.val.temperature, cv.species_mass_fractions>>,
                   times |-> Q(self.factor, 1)])

(* lines 369-387: with a Prandtl number eos is asked first.                *)
MixtureAveragedTransport_thermal_conductivity(self, cv, dv, eos) ==
    IF self.prandtl.type # "NoneType"
    THEN IF GetAttr(eos, "heat_capacity_cp").raised
         THEN GetAttr(eos, "heat_capacity_cp")
         ELSE IF MixtureAveragedTransport_viscosity(self, cv, dv).raised
         THEN MixtureAveragedTransport_viscosity(self, cv, dv)
         ELSE Returned(Scaled(Q(eos.val.heat_capacity_cp, self.prandtl.val[1]),
                  MixtureAveragedTransport_viscosity(self, cv, dv).value))
    ELSE IF GetAttr(dv, "temperature").raised THEN GetAttr(dv, "temperature")
    ELSE Returned([kind |-> "mixavg",
                   fn |-> "get_mixture_thermal_conductivity_mixavg",
                   args |-> <<dv.val.temperature, cv.species_mass_fractions>>,
                   times |-> Q(self.factor, 1)])

(* lines 340-409 *)
MixtureAveragedTransport_method(self, method, cv, dv, eos) ==
    CASE method = "viscosity" -> MixtureAveragedTransport_viscosity(self, cv, dv)
      [] method = "bulk_viscosity"
             -> IF MixtureAveragedTransport_viscosity(self, cv, dv).raised
                THEN MixtureAveragedTransport_viscosity(self, cv, dv)
                ELSE Returned(Scaled(Q(self.alpha, 1),
                         MixtureAveragedTransport_viscosity(self, cv, dv).value))
      [] method = "volume_viscosity"
             -> IF MixtureAveragedTransport_viscosity(self, cv, dv).raised
                THEN MixtureAveragedTransport_viscosity(self, cv, dv)
                ELSE Returned(Scaled(Q(3 * self.alpha - 2, 3),
                         MixtureAveragedTransport_viscosity(self, cv, dv).value))
      [] method = "thermal_conductivity"
             -> MixtureAveragedTransport_thermal_conductivity(self, cv, dv, eos)
      [] method = "species_diffusivity"
             -> IF self.lewis.type # "NoneType"
                THEN LewisDiffusivity(
                         MixtureAveragedTransport_thermal_conductivity(self, cv,
                                                                       dv, eos),
                         cv, dv, eos, self.lewis.val)
                ELSE IF GetAttr(dv, "temperature").raised
                THEN GetAttr(dv, "temperature")
                ELSE Returned([kind |-> "mixavg",
                               fn |-> "get_species_mass_diffusivities_mixavg",
                               args |-> <<dv.val.temperature, dv.val.pressure,
                                          cv.species_mass_fractions>>,
                               times |-> Q(self.factor, 1)])

PropertyMethods ==
    <<"bulk_viscosity", "viscosity", "volume_viscosity",
      "thermal_conductivity", "species_diffusivity">>

(* self.method(cv, dv, eos): the method of the class of self.  The         *)
(* properties of SimpleTransport are constants (lines 164-197); the base   *)
(* class implements none of the five (lines 100-125).                      *)
TransportMethod(self, method, cv, dv, eos) ==
    CASE self.cls = "SimpleTransport"
             -> (CASE method = "bulk_viscosity" -> Returned(Q(self.mu_bulk, 1))
                   [] method = "viscosity" -> Returned(Q(self.mu, 1))
                   [] method = "volume_viscosity"
                          -> Returned(Q(3 * self.mu_bulk - 2 * self.mu, 3))
                   [] method = "thermal_conductivity"
                          -> Returned(Q(self.kappa, 1))
                   [] method = "species_diffusivity"
                          -> Returned(VectorField([i \in DOMAIN self.d_alpha |->
                                                      Q(self.d_alpha[i], 1)])))
      [] self.cls = "PowerLawTransport"
             -> PowerLawTransport_method(self, method, cv, dv, eos)
      [] self.cls = "MixtureAveragedTransport"
             -> MixtureAveragedTransport_method(self, method, cv, dv, eos)
      [] OTHER -> Raised("NotImplementedError", [text |-> ""])

(* TransportModel.transport_vars (lines 127-137): the five properties in   *)
(* the order of the keywords; the first that raises ends the call.         *)
transport_vars(self, cv, dv, eos) ==
    LET failing == {i \in DOMAIN PropertyMethods :
                        TransportMethod(self, PropertyMethods[i],
                                        cv, dv, eos).raised}
    IN  IF failing # {}
        THEN TransportMethod(self,
                 PropertyMethods[CHOOSE i \in failing :
                                     \A j \in failing : i <= j],
                 cv, dv, eos)
        ELSE Returned([kind |-> "GasTransportVars",
                       fields |-> [i \in DOMAIN PropertyMethods |->
                                      TransportMethod(self, PropertyMethods[i],
                                                      cv, dv, eos).value]])

(* The models the methods are called on: the base class, and instances of  *)
(* the three models with and without a Lewis and a Prandtl number.         *)
TransportModels ==
    {[cls |-> "TransportModel"]}
    \cup {[cls |-> "SimpleTransport", mu_bulk |-> b, mu |-> 1, kappa |-> k,
           d_alpha |-> <<1, 2>>] : b \in 0..1, k \in 1..MaxKappa}
    \cup {[cls |-> "PowerLawTransport", scaling_factor |-> 1, alpha |-> 1,
           beta |-> b, sigma |-> 2, n |-> n, lewis |-> l,
           d_alpha |-> IF l = PyNone THEN <<1, 2>> ELSE <<>>] :
              b \in 1..2, n \in 1..2,
              l \in {PyNone, PyVal("ndarray", <<1, 2>>)}}
    \cup {[cls |-> "MixtureAveragedTransport", alpha |-> 1, factor |-> 1,
           prandtl |-> p, lewis |-> l] :
              p \in {PyNone, PyVal("float", <<2>>)},
              l \in {PyNone, PyVal("ndarray", <<1, 2>>)}}

(* A method of a model called with a state cv, with or without dv and eos. *)
CallTransportModel ==
    /\ call = NoCall
    /\ \E self \in TransportModels,
          method \in {PropertyMethods[i] : i \in DOMAIN PropertyMethods}
                         \cup {"transport_vars"},
          cv \in {[mass |-> m, species_mass_fractions |-> "Y"] : m \in 1..2},
          dv \in {PyNone}
                 \cup {PyVal("GasDependentVars",
                             [temperature |-> t, pressure |-> 1]) : t \in 1..MaxT},
          eos \in {PyNone, PyVal("GasEOS", [heat_capacity_cv |-> 2,
                                            heat_capacity_cp |-> 3])} :
         call' = [op |-> "transport", self |-> self, method |-> method,
                  cv |-> cv, dv |-> dv, eos |-> eos,
                  result |-> IF method = "transport_vars"
                             THEN transport_vars(self, cv, dv, eos)
                             ELSE TransportMethod(self, method, cv, dv, eos)]
    /\ UNCHANGED <<pc, inp, env, log>>

TransportInit ==
    /\ call = NoCall
    /\ CoupledOff

TransportSpec == TransportInit /\ [][CallTransportModel \/ Return]_vars

(* The method reads dv: every property of the power-law and of the mixture *)
(* averaged model is a function of dv.temperature, but for the species     *)
(* diffusivities of a power-law model given directly.                      *)
RequiresDependentVars(self, method) ==
    /\ self.cls \in {"PowerLawTransport", "MixtureAveragedTransport"}
    /\ (self.cls = "PowerLawTransport" /\ method = "species_diffusivity")
           => self.lewis # PyNone

CalledWithoutDependentVars ==
    /\ call.op = "transport"
    /\ call.dv = PyNone
    /\ RequiresDependentVars(call.self, call.method)

(* C27: a transport model whose property needs dv, called with dv = None,  *)
(* raises TransportModelError.                                             *)
C27_MissingDvRaisesTransportModelError ==
    CalledWithoutDependentVars =>
        /\ call.result.raised
        /\ call.result.exc.type = "TransportModelError"

(* What the code does: the call raises, never returns a value, but the     *)
(* error is the AttributeError of None.                                    *)
C27_MissingDvRaisesAttributeError ==
    CalledWithoutDependentVars =>
        /\ call.result.raised
        /\ call.result.exc.type = "AttributeError"

(* No call of any transport model raises TransportModelError.              *)
C27_TransportModelErrorNeverRaised ==
    (call.op = "transport" /\ call.result.raised)
        => call.result.exc.type # "TransportModelError"
-----------------------------------------------------------------------------
(* The quadrature tag of the gradients of get_interface_boundaries.        *)

CalledByGetInterfaceBoundaries(ev) ==
    /\ IsGradientOperator(ev)
    /\ ev.caller = "get_interface_boundaries"

(* C28: the gradient operators get_interface_boundaries evaluates are      *)
(* given the quadrature_tag get_interface_boundaries was called with,      *)
(* which is the one of the evaluation.                                     *)
C28_GradientsUseGivenQuadratureTag ==
    \A i \in DOMAIN log :
        CalledByGetInterfaceBoundaries(log[i])
            => log[i].quadrature_tag = inp.quadrature_tag

(* What the code does: they are given the base tag, whatever the call's.   *)
C28_GradientsUseBaseTag ==
    \A i \in DOMAIN log :
        CalledByGetInterfaceBoundaries(log[i])
            => log[i].quadrature_tag = DISCR_TAG_BASE
-----------------------------------------------------------------------------
(* The forced-dependency terms on a one-dimensional domain.                *)

RaisedIndexError ==
    /\ pc = "raised"
    /\ env.exc.type = "IndexError"

(* C29: for every dimension the forced-dependency terms index existing     *)
(* components of the gradients: no evaluation ends with an IndexError.     *)
C29_ForcedTermsIndexExistingComponents == ~RaisedIndexError

(* What the code does: the terms need two components, so an evaluation     *)
(* that reaches them fails exactly on the one-dimensional domains.         *)
C29_IndexErrorIffOneDimensional ==
    /\ RaisedIndexError => inp.discr.dim = 1
    /\ "fluid_rhs" \in DOMAIN env => inp.discr.dim >= 2
-----------------------------------------------------------------------------
(* One boundary flux term per entry of the boundaries mapping.             *)

BoundaryFluxMethod ==
    IF call.op = "grad_operator" THEN "get_grad_flux" ELSE "get_diffusion_flux"

BoundaryFluxTerms(work, method) == {i \in DOMAIN work : work[i].op = method}

(* Every entry of the mapping has a flux term of its boundary object, and  *)
(* there are as many terms as entries.                                     *)
OneTermPerEntry(dict, work, method) ==
    /\ Cardinality(BoundaryFluxTerms(work, method)) = Len(dict)
    /\ \A j \in DOMAIN dict :
           \E i \in BoundaryFluxTerms(work, method) : work[i].cls = dict[j].v.cls

(* C30: an operator call on a scalar u that returns has evaluated exactly  *)
(* one boundary flux term for every entry of the boundaries mapping it was *)
(* given.                                                                  *)
C30_OneFluxTermPerEntry ==
    (ScalarCall /\ ~call.result.raised) =>
        OneTermPerEntry(call.boundaries.val, call.result.work,
                        BoundaryFluxMethod)

(* What the code does: one term per key of the re-keyed mapping.           *)
C30_OneFluxTermPerNormalizedKey ==
    (ScalarCall /\ ~call.result.raised) =>
        Cardinality(BoundaryFluxTerms(call.result.work, BoundaryFluxMethod))
            = Cardinality(DictKeys(normalize_boundaries(call.boundaries.val)))

(* What the coupling layer does with a user boundary registered under the  *)
(* tag of an interface part: update() replaces it by the interface         *)
(* boundary.                                                               *)
C30_InterfaceBoundaryReplacesUserBoundary ==
    LET user == <<Item(InterfaceTag("fluid", 1), NeumannDiffusionBoundary(0))>>
        interface == <<InterfaceItem>>
    IN  DictUpdate(DictUpdate(<<>>, user), interface) = interface

=============================================================================
